---- MODULE Spec2Model ----
(***************************************************************************)
(* Neotron Desktop BIOS (src/src/main.rs): the capability table the guest  *)
(* OS calls into, and the two threads around it, modelled as a state       *)
(* machine.  An action is one call of one entry point of BIOS_API, one     *)
(* handler of the presentation thread, or one step of the guest thread's   *)
(* startup; `call` records the call that was made last (its arguments, its *)
(* result and what it handed back through a buffer).                       *)
(***************************************************************************)
EXTENDS Integers, Sequences, FiniteSets, TLC

VARIABLES
    VIDEO_MODE,   \* static VIDEO_MODE: AtomicU8
    PALETTE,      \* static PALETTE: [AtomicU32; 256], index 0..255
    HARDWARE,     \* static HARDWARE: Mutex<Option<Hardware>>, the Hardware in it
    build,        \* how the binary was built: are integer overflow checks on
    guest,        \* the guest thread: "spawned", "startup_wait", "starting",
                  \* "running" (in os_main), "in_block_call", "panicked", "exited"
    palette_calls,\* palette calls made so far (bounded by MaxPaletteCalls)
    call,         \* the call made last: its arguments and its result
    ui,           \* the presentation thread: where it is in engine.run
    app,          \* the MyApp value: mode and the two glyph caches
    channel,      \* the mpsc channel behind EV_QUEUE: events sent, not yet received
    locks,        \* who holds the EV_QUEUE mutex and the HARDWARE mutex
    history,      \* what has happened so far: events pushed and delivered, counts
    FRAMEBUFFER,  \* static FRAMEBUFFER: its bytes at the offsets in FbOffsets
    past_end,     \* the byte of the process image that follows FRAMEBUFFER
    atomics,      \* the guest's AtomicBools, and who tried and who won each
    clock,        \* the host's clocks: Instant (microseconds) and SystemTime (seconds)
    textures,     \* the engine's textures: per font, the colours they were drawn in
    frame         \* the frame on_update drew last, or is drawing

vars == <<VIDEO_MODE, PALETTE, HARDWARE, build, guest, palette_calls, call,
          ui, app, channel, locks, history, FRAMEBUFFER, past_end,
          atomics, clock, textures, frame>>

\* What the pix engine holds for the presentation thread.
engine == <<textures, frame>>

\* The state of the two threads and of the bridge between them.
threads == <<ui, app, channel, locks, history>>

\* The framebuffer, the memory next to it, and the guest's atomics.
memory == <<FRAMEBUFFER, past_end, atomics>>

\* const BLOCK_SIZE: usize = 512
BLOCK_SIZE == 512

(***************************************************************************)
(* Bounds of the model and the inputs the guest's calls are drawn from.    *)
(***************************************************************************)
\* Palette calls in one run.
MaxPaletteCalls == 3

\* Palette indexes (u8) the guest uses: both ends, and both sides of the
\* sixteen text foreground entries.
PaletteIndexes == {0, 1, 15, 16, 254, 255}

\* Lengths of the lists handed to video_set_whole_palette: empty, short,
\* one less than the palette, exactly the palette, and longer.
PaletteListLens == {0, 1, 255, 256, 257, 300}

\* Colours the guest sets: the three components differ, and so do the two.
Colours == {[red |-> 255, green |-> 0, blue |-> 128],
            [red |-> 1, green |-> 2, blue |-> 3]}

\* The list of n colours handed to video_set_whole_palette, numbered p:
\* entry k (from 0) is a colour that tells k and p.
ColourList(n, p) ==
    [k \in 1..n |-> [red |-> (k - 1) % 256, green |-> 200 + p, blue |-> (k - 1) \div 256]]

ColourLists == {ColourList(n, p) : n \in PaletteListLens, p \in {1, 2}}

\* Whole blocks of the largest disk image.
MaxDiskBlocks == 2

\* Bytes of a disk image after its last whole block.
DiskTails == {0, 100}

\* Blocks one call transfers (num_blocks: u8).
MaxNumBlocks == 2

\* Byte j (from 1) of a disk image: no two blocks of it are alike.
ImageByte(j) == ((j - 1) * 7 + ((j - 1) \div BLOCK_SIZE) * 31 + 5) % 256

\* The longest disk image; the others are its prefixes.
LongestImage == [j \in 1..((MaxDiskBlocks + 1) * BLOCK_SIZE) |-> ImageByte(j)]

DiskImage(blocks, tail) == SubSeq(LongestImage, 1, blocks * BLOCK_SIZE + tail)

\* The --disk argument: absent, or a file holding an image.
DiskArgs ==
    {[some |-> FALSE, image |-> <<>>]} \cup
    {[some |-> TRUE, image |-> DiskImage(b, t)] : b \in 0..MaxDiskBlocks, t \in DiskTails}

\* Block indexes (u64 limbs): up to one past the largest image; 2^54, whose
\* byte offset is 2^63; and 2^55 + 1, whose byte offset does not fit.
BlockIndexes ==
    {<<i, 0, 0, 0>> : i \in 0..(MaxDiskBlocks + 1)} \cup
    {<<0, 0, 0, 64>>, <<1, 0, 0, 128>>}

\* (dev_id, block_idx, num_blocks) of the block calls: device 0 with every
\* index and count, and two devices that do not exist.
BlockArgs ==
    {<<0, block_idx, num_blocks>> :
        block_idx \in BlockIndexes, num_blocks \in 0..MaxNumBlocks} \cup
    {<<1, <<0, 0, 0, 0>>, 1>>, <<255, <<1, 0, 0, 0>>, 0>>}

\* The longest guest buffer: it is unlike every block of an image.
LongestBuffer == [j \in 1..(MaxNumBlocks * BLOCK_SIZE) |-> (j * 3 + 101) % 256]

\* A guest buffer of len bytes.
BufferBytes(len) == SubSeq(LongestBuffer, 1, len)

\* Lengths of the guest's buffer for num_blocks blocks: exact, or one short.
BufferLens(num_blocks) ==
    {num_blocks * BLOCK_SIZE} \cup
    (IF num_blocks > 0 THEN {num_blocks * BLOCK_SIZE - 1} ELSE {})

(***************************************************************************)
(* Results: common::ApiResult<()> and common::Error.                       *)
(***************************************************************************)
ApiOk == [tag |-> "Ok", err |-> "None", code |-> 0]

ApiErr(e, c) == [tag |-> "Err", err |-> e, code |-> c]

\* A panic inside the entry point: the call returns nothing to the guest.
Panicked == [tag |-> "Panic", err |-> "None", code |-> 0]

NoCall == [op |-> "none"]

(***************************************************************************)
(* common::video::Mode: a wrapper of one byte (as_u8 and from_u8 unwrap    *)
(* and wrap it), so a Mode is modelled as its byte: format in bits 0..2,   *)
(* timing in bits 3..5, horizontal doubling in bit 6, vertical in bit 7.   *)
(***************************************************************************)
T640x480 == 0

T640x400 == 1

T800x600 == 2

Text8x16 == 0

Text8x8 == 1

Mode_new(timing, format) == timing * 8 + format

Mode_timing(mode) == (mode \div 8) % 8

Mode_format(mode) == mode % 8

Mode_scaling(mode) == mode \div 64

\* The values of type Mode: every byte whose timing field names a Timing.
Modes == {m \in 0..255 : Mode_timing(m) \in {T640x480, T640x400, T800x600}}

\* The four supported (timing, format) combinations, as Mode::new builds them.
SupportedModes ==
    {Mode_new(t, f) : t \in {T640x480, T640x400}, f \in {Text8x16, Text8x8}}

\* Whether a mode's (timing, format) pair is one of the four supported pairs.
SupportedCombination(mode) ==
    /\ Mode_timing(mode) \in {T640x480, T640x400}
    /\ Mode_format(mode) \in {Text8x16, Text8x8}

(***************************************************************************)
(* common::video::RGBColour: a colour as the guest passes it, and the      *)
(* packed u32 the palette stores.                                          *)
(***************************************************************************)
RGBColour_from_rgb(r, g, b) == [red |-> r, green |-> g, blue |-> b]

RGBColour_as_packed(rgb) == rgb.red * 65536 + rgb.green * 256 + rgb.blue

RGBColour_from_packed(packed) ==
    [red   |-> (packed \div 65536) % 256,
     green |-> (packed \div 256) % 256,
     blue  |-> packed % 256]

PALETTE_LEN == 256

\* The startup palette, packed, entry i at position i + 1.
StartupPalette ==
    << 
      0, 8388608, 32768, 8421376, 128, 8388736, 32896, 12632256,
      8421504, 16711680, 65280, 16776960, 255, 16711935, 65535, 16777215,
      0, 95, 135, 175, 215, 255, 24320, 24415,
      24455, 24495, 24535, 24575, 34560, 34655, 34695, 34735,
      34775, 34815, 44800, 44895, 44935, 44975, 45015, 45055,
      55040, 55135, 55175, 55215, 55255, 55295, 65280, 65375,
      65415, 65455, 65495, 65535, 6225920, 6226015, 6226055, 6226095,
      6226135, 6226175, 6250240, 6250335, 6250375, 6250415, 6250455, 6250495,
      6260480, 6260575, 6260615, 6260655, 6260695, 6260735, 6270720, 6270815,
      6270855, 6270895, 6270935, 6270975, 6280960, 6281055, 6281095, 6281135,
      6281175, 6281215, 6291200, 6291295, 6291335, 6291375, 6291415, 6291455,
      8847360, 8847455, 8847495, 8847535, 8847575, 8847615, 8871680, 8871775,
      8871815, 8871855, 8871895, 8871935, 8881920, 8882015, 8882055, 8882095,
      8882135, 8882175, 8892160, 8892255, 8892295, 8892335, 8892375, 8892415,
      8902400, 8902495, 8902535, 8902575, 8902615, 8902655, 8912640, 8912735,
      8912775, 8912815, 8912855, 8912895, 11468800, 11468895, 11468935, 11468975,
      11469015, 11469055, 11493120, 11493215, 11493255, 11493295, 11493335, 11493375,
      11503360, 11503455, 11503495, 11503535, 11503575, 11503615, 11513600, 11513695,
      11513735, 11513775, 11513815, 11513855, 11523840, 11523935, 11523975, 11524015,
      11524055, 11524095, 11534080, 11534175, 11534215, 11534255, 11534295, 11534335,
      14090240, 14090335, 14090375, 14090415, 14090455, 14090495, 14114560, 14114655,
      14114695, 14114735, 14114775, 14114815, 14124800, 14124895, 14124935, 14124975,
      14125015, 14125055, 14135040, 14135135, 14135175, 14135215, 14135255, 14135295,
      14145280, 14145375, 14145415, 14145455, 14145495, 14145535, 14155520, 14155615,
      14155655, 14155695, 14155735, 14155775, 16711680, 16711775, 16711815, 16711855,
      16711895, 16711935, 16736000, 16736095, 16736135, 16736175, 16736215, 16736255,
      16746240, 16746335, 16746375, 16746415, 16746455, 16746495, 16756480, 16756575,
      16756615, 16756655, 16756695, 16756735, 16766720, 16766815, 16766855, 16766895,
      16766935, 16766975, 16776960, 16777055, 16777095, 16777135, 16777175, 16777215,
      526344, 1184274, 1842204, 2500134, 3158064, 3815994, 4473924, 5131854,
      5789784, 6447714, 7105644, 7763574, 8421504, 9079434, 9737364, 10395294,
      11053224, 11711154, 12369084, 13027014, 13684944, 14342874, 15000804, 15658734
    >>

(***************************************************************************)
(* Video mode                                                              *)
(***************************************************************************)
\* video_is_valid_mode: the boolean it returns.
video_is_valid_mode_result(mode) == mode = Mode_new(T640x480, Text8x16)

\* A video_set_mode that checks the format and not the timing.
video_set_mode_result_no_timing_check(mode) ==
    IF Mode_format(mode) \notin {Text8x16, Text8x8}
    THEN ApiErr("UnsupportedConfiguration", mode)
    ELSE ApiOk

\* video_set_mode: the result it returns for `mode`.
video_set_mode_result(mode) ==
    IF Mode_timing(mode) \notin {T640x480, T640x400}
    THEN ApiErr("UnsupportedConfiguration", mode)
    ELSE IF Mode_format(mode) \notin {Text8x16, Text8x8}
    THEN ApiErr("UnsupportedConfiguration", mode)
    ELSE ApiOk

\* A video_set_mode that stores the format and loses the timing.
video_set_mode_store_format_only(mode, stored) ==
    IF video_set_mode_result(mode) = ApiOk THEN Mode_format(mode) ELSE stored

\* video_set_mode: the value VIDEO_MODE holds after the call.
video_set_mode_store(mode, stored) ==
    IF video_set_mode_result(mode) = ApiOk THEN mode ELSE stored

\* video_get_mode: the mode it returns.
video_get_mode_result(stored) == stored

video_is_valid_mode(mode) ==
    /\ guest = "running"
    /\ call' = [op |-> "video_is_valid_mode", mode |-> mode,
                ret |-> video_is_valid_mode_result(mode)]
    /\ UNCHANGED <<threads, memory, clock, engine, VIDEO_MODE, PALETTE, HARDWARE, build, guest, palette_calls>>

\* A video_set_mode that blanks the framebuffer when it accepts the mode.
video_set_mode_clears(mode) ==
    /\ guest = "running"
    /\ VIDEO_MODE' = video_set_mode_store(mode, VIDEO_MODE)
    /\ call' = [op |-> "video_set_mode", mode |-> mode,
                ret |-> video_set_mode_result(mode)]
    /\ FRAMEBUFFER' = IF video_set_mode_result(mode) = ApiOk
                      THEN [o \in DOMAIN FRAMEBUFFER |-> 0]
                      ELSE FRAMEBUFFER
    /\ UNCHANGED <<threads, past_end, atomics, clock, engine, PALETTE, HARDWARE,
                   build, guest, palette_calls>>

video_set_mode(mode) ==
    /\ guest = "running"
    /\ VIDEO_MODE' = video_set_mode_store(mode, VIDEO_MODE)
    /\ call' = [op |-> "video_set_mode", mode |-> mode,
                ret |-> video_set_mode_result(mode)]
    /\ UNCHANGED <<threads, memory, clock, engine, PALETTE, HARDWARE, build, guest, palette_calls>>

video_get_mode ==
    /\ guest = "running"
    /\ call' = [op |-> "video_get_mode", mode |-> VIDEO_MODE,
                ret |-> video_get_mode_result(VIDEO_MODE)]
    /\ UNCHANGED <<threads, memory, clock, engine, VIDEO_MODE, PALETTE, HARDWARE, build, guest, palette_calls>>

(***************************************************************************)
(* Palette                                                                 *)
(***************************************************************************)
FfiSome(v) == [some |-> TRUE, value |-> v]

FfiNone == [some |-> FALSE, value |-> 0]

\* A palette one entry short.
PALETTE_get_one_short(index) == index < PALETTE_LEN - 1

\* PALETTE.get(usize::from(index)): is there such an entry.
PALETTE_get(index) == index < PALETTE_LEN

\* video_get_palette: the option it returns.
video_get_palette_result(palette, index) ==
    IF PALETTE_get(index)
    THEN FfiSome(RGBColour_from_packed(palette[index]))
    ELSE FfiNone

\* A store that is two entries wide.
video_set_palette_store_wide(palette, index, rgb) ==
    IF PALETTE_get(index)
    THEN [i \in DOMAIN palette |->
            IF i = index THEN RGBColour_as_packed(rgb)
            ELSE IF i = index + 1 THEN 0
            ELSE palette[i]]
    ELSE palette

\* video_set_palette: the palette after the call.
video_set_palette_store(palette, index, rgb) ==
    IF PALETTE_get(index)
    THEN [palette EXCEPT ![index] = RGBColour_as_packed(rgb)]
    ELSE palette

\* A zip over the sixteen text foreground entries only.
ZipLen_take16(slice) == IF Len(slice) < 16 THEN Len(slice) ELSE 16

\* PALETTE.iter().zip(slice): the number of (entry, new_rgb) pairs; zip ends
\* with the shorter of the two.
ZipLen(slice) == IF Len(slice) < PALETTE_LEN THEN Len(slice) ELSE PALETTE_LEN

\* video_set_whole_palette: the palette after the call; pair i stores
\* new_rgb, packed, into entry i.
video_set_whole_palette_store(palette, slice) ==
    [i \in 0..(PALETTE_LEN - 1) |->
        IF i < ZipLen(slice) THEN RGBColour_as_packed(slice[i + 1]) ELSE palette[i]]

video_get_palette(index) ==
    /\ guest = "running"
    /\ palette_calls < MaxPaletteCalls
    /\ palette_calls' = palette_calls + 1
    /\ call' = [op |-> "video_get_palette", index |-> index,
                ret |-> video_get_palette_result(PALETTE, index)]
    /\ UNCHANGED <<threads, memory, clock, engine, VIDEO_MODE, PALETTE, HARDWARE, build, guest>>

\* A video_set_palette that draws the glyph textures again in the new
\* colours.
video_set_palette_redraws(index, rgb) ==
    /\ guest = "running"
    /\ palette_calls < MaxPaletteCalls
    /\ palette_calls' = palette_calls + 1
    /\ PALETTE' = video_set_palette_store(PALETTE, index, rgb)
    /\ call' = [op |-> "video_set_palette", index |-> index, rgb |-> rgb]
    /\ textures' = [font \in DOMAIN textures |->
                      [slot \in DOMAIN textures[font] |->
                         [textures[font][slot] EXCEPT
                            !.fg = [red   |-> (PALETTE'[slot % 16] \div 65536) % 256,
                                    green |-> (PALETTE'[slot % 16] \div 256) % 256,
                                    blue  |-> PALETTE'[slot % 16] % 256]]]]
    /\ UNCHANGED <<threads, memory, clock, frame, VIDEO_MODE, HARDWARE, build, guest>>

video_set_palette(index, rgb) ==
    /\ guest = "running"
    /\ palette_calls < MaxPaletteCalls
    /\ palette_calls' = palette_calls + 1
    /\ PALETTE' = video_set_palette_store(PALETTE, index, rgb)
    /\ call' = [op |-> "video_set_palette", index |-> index, rgb |-> rgb]
    /\ UNCHANGED <<threads, memory, clock, engine, VIDEO_MODE, HARDWARE, build, guest>>

video_set_whole_palette(slice) ==
    /\ guest = "running"
    /\ palette_calls < MaxPaletteCalls
    /\ palette_calls' = palette_calls + 1
    /\ PALETTE' = video_set_whole_palette_store(PALETTE, slice)
    /\ call' = [op |-> "video_set_whole_palette", slice |-> slice]
    /\ UNCHANGED <<threads, memory, clock, engine, VIDEO_MODE, HARDWARE, build, guest>>

(***************************************************************************)
(* 64-bit unsigned integers, as four 16-bit limbs, least significant       *)
(* first: block indexes and file offsets keep the width of u64.            *)
(***************************************************************************)
Limb == 65536

U64(n) == <<n % Limb, (n \div Limb) % Limb, 0, 0>>

\* The u64 as a number, when it is below 2^31.
U64_small(x) == x[3] = 0 /\ x[4] = 0 /\ x[2] < 32768

U64_value(x) == x[1] + x[2] * Limb

\* x * m for a multiplier m < 2^15: the wrapped product and whether the
\* exact product fits in 64 bits.
U64_mul(x, m) ==
    LET t1 == x[1] * m
        t2 == x[2] * m + (t1 \div Limb)
        t3 == x[3] * m + (t2 \div Limb)
        t4 == x[4] * m + (t3 \div Limb)
    IN  [value    |-> <<t1 % Limb, t2 % Limb, t3 % Limb, t4 % Limb>>,
         overflow |-> (t4 \div Limb) # 0]

\* Whether the u64, read as an i64, is negative.
U64_top_bit(x) == x[4] >= 32768

(***************************************************************************)
(* std::fs::File over a disk image: the bytes, the position (u64) and      *)
(* whether the handle may write.                                           *)
(***************************************************************************)
\* A handle opened for reading and writing.
File_open_read_write(image) == [data |-> image, pos |-> U64(0), write |-> TRUE]

\* std::fs::File::open(path): a read-only handle at position 0.
File_open(image) == [data |-> image, pos |-> U64(0), write |-> FALSE]

\* file.seek(SeekFrom::Start(offset)): fails for an offset that is negative
\* as an i64, and otherwise moves, also past the end of the file.
File_seek(file, offset) ==
    IF U64_top_bit(offset)
    THEN [ok |-> FALSE, file |-> file]
    ELSE [ok |-> TRUE, file |-> [file EXCEPT !.pos = offset]]

\* The bytes of the file from its position on.
File_rest(file) ==
    IF U64_small(file.pos) /\ U64_value(file.pos) < Len(file.data)
    THEN SubSeq(file.data, U64_value(file.pos) + 1, Len(file.data))
    ELSE <<>>

\* file.read_exact(buf) for a buffer of n bytes: the bytes read, which are
\* fewer than n when the file ends first (that is the error).
File_read_exact(file, n) ==
    LET rest == File_rest(file)
        got  == IF Len(rest) >= n THEN SubSeq(rest, 1, n) ELSE rest
    IN  [ok    |-> Len(rest) >= n,
         bytes |-> got,
         file  |-> IF Len(got) = 0 THEN file
                   ELSE [file EXCEPT
                            !.pos = U64(U64_value(file.pos) + Len(got))]]

\* file.write_all(bytes): nothing to do for no bytes; write(2) refuses a
\* handle not opened for writing; a write past the end grows the file.
File_write_all(file, bytes) ==
    IF Len(bytes) = 0 THEN [ok |-> TRUE, file |-> file]
    ELSE IF ~file.write \/ ~U64_small(file.pos) THEN [ok |-> FALSE, file |-> file]
    ELSE LET at  == U64_value(file.pos)
             end == at + Len(bytes)
             len == IF end > Len(file.data) THEN end ELSE Len(file.data)
         IN  [ok   |-> TRUE,
              file |-> [file EXCEPT
                          !.data = [j \in 1..len |->
                                      IF j > at /\ j <= end THEN bytes[j - at]
                                      ELSE IF j <= Len(file.data) THEN file.data[j]
                                      ELSE 0],
                          !.pos = U64(end)]]

(***************************************************************************)
(* Block device                                                            *)
(***************************************************************************)
NoDisk == [some |-> FALSE]

SomeDisk(file) == [some |-> TRUE, file |-> file]

\* Hardware { boot_time: Instant::now(),
\*            disk_file: args.disk.map(|path| File::open(path)) }.
Hardware_new(now, disk) ==
    [boot_time |-> now,
     disk_file |-> IF disk.some THEN SomeDisk(File_open(disk.image)) ELSE NoDisk]

\* block_idx.0 * BLOCK_SIZE as u64.
ByteOffset(block_idx) == U64_mul(block_idx, BLOCK_SIZE)

\* The multiplication panics when it overflows and overflow checks are on.
OffsetPanics(block_idx) == build.overflow_checks /\ ByteOffset(block_idx).overflow

\* &slice[0..usize::from(num_blocks) * BLOCK_SIZE]: panics on a shorter slice.
SliceShort(bytes, num_blocks) == Len(bytes) < num_blocks * BLOCK_SIZE

SlicePrefix(bytes, num_blocks) == SubSeq(bytes, 1, num_blocks * BLOCK_SIZE)

Outcome(hw, ret, out) == [hw |-> hw, ret |-> ret, out |-> out]

WithFile(hw, file) == [hw EXCEPT !.disk_file = SomeDisk(file)]

\* block_write: the hardware after the call and the result.
block_write_outcome(hw, dev_id, block_idx, num_blocks, buffer) ==
    IF dev_id # 0 THEN Outcome(hw, ApiErr("InvalidDevice", 0), buffer)
    ELSE IF ~hw.disk_file.some THEN Outcome(hw, ApiErr("DeviceError", 0), buffer)
    ELSE IF OffsetPanics(block_idx) THEN Outcome(hw, Panicked, buffer)
    ELSE LET sought == File_seek(hw.disk_file.file, ByteOffset(block_idx).value)
         IN  IF ~sought.ok THEN Outcome(hw, ApiErr("BlockOutOfBounds", 0), buffer)
             ELSE IF SliceShort(buffer, num_blocks)
             THEN Outcome(WithFile(hw, sought.file), Panicked, buffer)
             ELSE LET written ==
                          File_write_all(sought.file, SlicePrefix(buffer, num_blocks))
                  IN  IF ~written.ok
                      THEN Outcome(WithFile(hw, written.file),
                                   ApiErr("DeviceError", 0), buffer)
                      ELSE Outcome(WithFile(hw, written.file), ApiOk, buffer)

\* The guest's buffer after read_exact stored `bytes` at its start.
Filled(buffer, bytes) ==
    bytes \o SubSeq(buffer, Len(bytes) + 1, Len(buffer))

\* A block_read that looks for the disk image before it looks at the device id.
block_read_outcome_disk_first(hw, dev_id, block_idx, num_blocks, null, buffer) ==
    IF ~hw.disk_file.some THEN Outcome(hw, ApiErr("DeviceError", 0), buffer)
    ELSE IF dev_id # 0 THEN Outcome(hw, ApiErr("InvalidDevice", 0), buffer)
    ELSE IF OffsetPanics(block_idx) THEN Outcome(hw, Panicked, buffer)
    ELSE LET sought == File_seek(hw.disk_file.file, ByteOffset(block_idx).value)
         IN  IF ~sought.ok THEN Outcome(hw, ApiErr("BlockOutOfBounds", 0), buffer)
             ELSE IF null THEN Outcome(WithFile(hw, sought.file), ApiOk, buffer)
             ELSE IF SliceShort(buffer, num_blocks)
             THEN Outcome(WithFile(hw, sought.file), Panicked, buffer)
             ELSE LET read == File_read_exact(sought.file, num_blocks * BLOCK_SIZE)
                  IN  IF ~read.ok
                      THEN Outcome(WithFile(hw, read.file),
                                   ApiErr("DeviceError", 0), Filled(buffer, read.bytes))
                      ELSE Outcome(WithFile(hw, read.file), ApiOk,
                                   Filled(buffer, read.bytes))

\* block_read: the hardware after the call, the result and the guest's
\* buffer after the call.  A null buffer (as_mut_slice gives None) is
\* skipped.
block_read_outcome(hw, dev_id, block_idx, num_blocks, null, buffer) ==
    IF dev_id # 0 THEN Outcome(hw, ApiErr("InvalidDevice", 0), buffer)
    ELSE IF ~hw.disk_file.some THEN Outcome(hw, ApiErr("DeviceError", 0), buffer)
    ELSE IF OffsetPanics(block_idx) THEN Outcome(hw, Panicked, buffer)
    ELSE LET sought == File_seek(hw.disk_file.file, ByteOffset(block_idx).value)
         IN  IF ~sought.ok THEN Outcome(hw, ApiErr("BlockOutOfBounds", 0), buffer)
             ELSE IF null THEN Outcome(WithFile(hw, sought.file), ApiOk, buffer)
             ELSE IF SliceShort(buffer, num_blocks)
             THEN Outcome(WithFile(hw, sought.file), Panicked, buffer)
             ELSE LET read == File_read_exact(sought.file, num_blocks * BLOCK_SIZE)
                  IN  IF ~read.ok
                      THEN Outcome(WithFile(hw, read.file),
                                   ApiErr("DeviceError", 0), Filled(buffer, read.bytes))
                      ELSE Outcome(WithFile(hw, read.file), ApiOk,
                                   Filled(buffer, read.bytes))

\* A block_verify that, finding a difference, stores the caller's bytes in
\* the image.
block_verify_outcome_repairs(hw, dev_id, block_idx, num_blocks, buffer) ==
    IF dev_id # 0 THEN Outcome(hw, ApiErr("InvalidDevice", 0), buffer)
    ELSE IF ~hw.disk_file.some THEN Outcome(hw, ApiErr("DeviceError", 0), buffer)
    ELSE IF OffsetPanics(block_idx) THEN Outcome(hw, Panicked, buffer)
    ELSE LET sought == File_seek(hw.disk_file.file, ByteOffset(block_idx).value)
         IN  IF ~sought.ok THEN Outcome(hw, ApiErr("BlockOutOfBounds", 0), buffer)
             ELSE IF SliceShort(buffer, num_blocks)
             THEN Outcome(WithFile(hw, sought.file), Panicked, buffer)
             ELSE LET read == File_read_exact(sought.file, num_blocks * BLOCK_SIZE)
                  IN  IF ~read.ok
                      THEN Outcome(WithFile(hw, read.file),
                                   ApiErr("DeviceError", 0), buffer)
                      ELSE IF read.bytes = SlicePrefix(buffer, num_blocks)
                      THEN Outcome(WithFile(hw, read.file), ApiOk, buffer)
                      ELSE Outcome(
                               WithFile(hw, File_write_all(
                                   [sought.file EXCEPT !.write = TRUE],
                                   SlicePrefix(buffer, num_blocks)).file),
                               ApiErr("DeviceError", 1), buffer)

\* block_verify: the hardware after the call and the result.
block_verify_outcome(hw, dev_id, block_idx, num_blocks, buffer) ==
    IF dev_id # 0 THEN Outcome(hw, ApiErr("InvalidDevice", 0), buffer)
    ELSE IF ~hw.disk_file.some THEN Outcome(hw, ApiErr("DeviceError", 0), buffer)
    ELSE IF OffsetPanics(block_idx) THEN Outcome(hw, Panicked, buffer)
    ELSE LET sought == File_seek(hw.disk_file.file, ByteOffset(block_idx).value)
         IN  IF ~sought.ok THEN Outcome(hw, ApiErr("BlockOutOfBounds", 0), buffer)
             ELSE IF SliceShort(buffer, num_blocks)
             THEN Outcome(WithFile(hw, sought.file), Panicked, buffer)
             ELSE LET read == File_read_exact(sought.file, num_blocks * BLOCK_SIZE)
                  IN  IF ~read.ok
                      THEN Outcome(WithFile(hw, read.file),
                                   ApiErr("DeviceError", 0), buffer)
                      ELSE IF read.bytes = SlicePrefix(buffer, num_blocks)
                      THEN Outcome(WithFile(hw, read.file), ApiOk, buffer)
                      ELSE Outcome(WithFile(hw, read.file),
                                   ApiErr("DeviceError", 1), buffer)

\* A guard that an early error return leaves behind.
hw_guard_dropped_leaks_on_error(ret) ==
    IF ret = Panicked THEN "poisoned"
    ELSE IF ret \in {ApiErr(e, c) : e \in {"InvalidDevice", "DeviceError",
                                           "BlockOutOfBounds"}, c \in {0, 1}}
    THEN "guest"
    ELSE "free"

\* The guard a call drops when it returns; a panic while it is held
\* poisons the mutex.
hw_guard_dropped(ret) == IF ret = Panicked THEN "poisoned" ELSE "free"

\* A call that panics ends the guest thread.
AfterCall(ret) == IF ret = Panicked THEN "panicked" ELSE "running"

BlockCall(op, dev_id, block_idx, num_blocks, null, buffer, outcome) ==
    /\ guest = "running"
    /\ locks.HARDWARE = "free"
    /\ locks' = [locks EXCEPT !.HARDWARE = hw_guard_dropped(outcome.ret)]
    /\ HARDWARE' = outcome.hw
    /\ guest' = AfterCall(outcome.ret)
    /\ call' = [op |-> op, dev_id |-> dev_id, block_idx |-> block_idx,
                num_blocks |-> num_blocks, null |-> null, buffer |-> buffer,
                ret |-> outcome.ret, out |-> outcome.out]
    /\ UNCHANGED <<ui, app, channel, history, memory, clock, engine, VIDEO_MODE,
                   PALETTE, build, palette_calls>>

block_write(dev_id, block_idx, num_blocks, buffer) ==
    BlockCall("block_write", dev_id, block_idx, num_blocks, FALSE, buffer,
              block_write_outcome(HARDWARE, dev_id, block_idx, num_blocks, buffer))

block_read(dev_id, block_idx, num_blocks, null, buffer) ==
    BlockCall("block_read", dev_id, block_idx, num_blocks, null, buffer,
              block_read_outcome(HARDWARE, dev_id, block_idx, num_blocks, null, buffer))

block_verify(dev_id, block_idx, num_blocks, buffer) ==
    BlockCall("block_verify", dev_id, block_idx, num_blocks, FALSE, buffer,
              block_verify_outcome(HARDWARE, dev_id, block_idx, num_blocks, buffer))

\* The bytes block_idx .. block_idx + num_blocks of the file, when the file
\* holds them all: a buffer equal to what is stored.
StoredBuffers(hw, block_idx, num_blocks) ==
    IF hw.disk_file.some /\ block_idx[2] = 0 /\ block_idx[3] = 0 /\ block_idx[4] = 0
       /\ (block_idx[1] + num_blocks) * BLOCK_SIZE <= Len(hw.disk_file.file.data)
    THEN {SubSeq(hw.disk_file.file.data, block_idx[1] * BLOCK_SIZE + 1,
                 (block_idx[1] + num_blocks) * BLOCK_SIZE)}
    ELSE {}

\* Buffers the guest passes to block_read: a null one, and real ones.
ReadBuffers(num_blocks) ==
    {[null |-> TRUE, bytes |-> <<>>]} \cup
    {[null |-> FALSE, bytes |-> BufferBytes(len)] : len \in BufferLens(num_blocks)}

\* Buffers the guest passes to block_write and block_verify.
Buffers(hw, block_idx, num_blocks) ==
    {BufferBytes(len) : len \in BufferLens(num_blocks)} \cup
    StoredBuffers(hw, block_idx, num_blocks)

(***************************************************************************)
(* Block device information                                                *)
(***************************************************************************)
\* Device ids the guest asks about.
DeviceIds == {0, 1, 255}

\* file.metadata().unwrap().len(): the length of the file in bytes.
File_metadata_len(file) == Len(file.data)

\* A capacity that counts a partial trailing block as a block.
block_dev_get_info_result_rounds_up(hw, dev_id) ==
    IF dev_id = 0 /\ hw.disk_file.some
    THEN FfiSome([name |-> "File0", device_type |-> "HardDiskDrive",
                  block_size |-> BLOCK_SIZE,
                  num_blocks |-> (File_metadata_len(hw.disk_file.file)
                                  + BLOCK_SIZE - 1) \div BLOCK_SIZE,
                  ejectable |-> FALSE, removable |-> FALSE,
                  media_present |-> TRUE, read_only |-> FALSE])
    ELSE FfiNone

\* block_dev_get_info: FfiOption<DeviceInfo>.
block_dev_get_info_result(hw, dev_id) ==
    IF dev_id = 0 /\ hw.disk_file.some
    THEN FfiSome([name |-> "File0", device_type |-> "HardDiskDrive",
                  block_size |-> BLOCK_SIZE,
                  num_blocks |-> File_metadata_len(hw.disk_file.file) \div BLOCK_SIZE,
                  ejectable |-> FALSE, removable |-> FALSE,
                  media_present |-> TRUE, read_only |-> FALSE])
    ELSE FfiNone

block_dev_get_info(dev_id) ==
    LET ret == block_dev_get_info_result(HARDWARE, dev_id)
    IN  /\ guest = "running"
        /\ locks.HARDWARE = "free"
        /\ locks' = [locks EXCEPT !.HARDWARE = hw_guard_dropped(ret)]
        /\ call' = [op |-> "block_dev_get_info", dev_id |-> dev_id, ret |-> ret]
        /\ UNCHANGED <<ui, app, channel, history, memory, clock, engine, VIDEO_MODE,
                       PALETTE, HARDWARE, build, guest, palette_calls>>

\* block_dev_eject: logs and returns Ok; it takes no lock and touches no
\* file.
block_dev_eject(dev_id) ==
    /\ guest = "running"
    /\ call' = [op |-> "block_dev_eject", dev_id |-> dev_id, ret |-> ApiOk]
    /\ UNCHANGED <<ui, app, channel, locks, history, memory, clock, engine,
                   VIDEO_MODE, PALETTE, HARDWARE, build, guest, palette_calls>>

(***************************************************************************)
(* The event bridge: AppEvent, the mpsc channel, EV_QUEUE                  *)
(***************************************************************************)
\* Key events the presentation thread pushes in one run, at most.
MaxEvents == 2

\* pix_engine keys: two that convert_keycode knows and one it does not.
Keys == {"Return", "Hash", "Exclaim"}

\* pix_engine events the window reports: key events with and without a
\* key, repeated or not, and an event that is not a key event.
Events ==
    {[kind |-> k, key |-> x, repeat |-> r] :
        k \in {"KeyUp", "KeyDown"}, x \in Keys \cup {"None"}, r \in BOOLEAN}
    \cup {[kind |-> "MouseMotion", key |-> "None", repeat |-> FALSE]}

\* enum AppEvent { Started, KeyUp(Key), KeyDown(Key) }
Started == [kind |-> "Started", key |-> "None"]

KeyUp(key) == [kind |-> "KeyUp", key |-> key]

KeyDown(key) == [kind |-> "KeyDown", key |-> key]

\* What a receive that got nothing holds.
NoEvent == [kind |-> "None", key |-> "None"]

\* common::hid::HidEvent
KeyPress(code) == [kind |-> "KeyPress", code |-> code]

KeyRelease(code) == [kind |-> "KeyRelease", code |-> code]

\* ApiResult::Ok(value)
ApiOkWith(value) == [tag |-> "Ok", value |-> value]

\* convert_keycode: the arms for the keys above; every key without an arm
\* becomes KeyCode::X.
convert_keycode(key) ==
    CASE key = "Return" -> "Return"
      [] key = "Hash" -> "Oem7"
      [] key = "X" -> "X"
      [] OTHER -> "X"

\* A channel of capacity zero: the sender waits while an event is in flight.
Sender_send_rendezvous(ch, ev) == [blocks |-> ch # <<>>, ch |-> Append(ch, ev)]

\* Sender::send on the unbounded channel: never waits.
Sender_send(ch, ev) == [blocks |-> FALSE, ch |-> Append(ch, ev)]

\* A receive that leaves the event in the channel.
Receiver_recv_peek(ch) ==
    IF ch = <<>>
    THEN [blocks |-> TRUE, ok |-> FALSE, ev |-> NoEvent, ch |-> ch]
    ELSE [blocks |-> FALSE, ok |-> TRUE, ev |-> Head(ch), ch |-> ch]

\* Receiver::recv: waits while the channel is empty.
Receiver_recv(ch) ==
    IF ch = <<>>
    THEN [blocks |-> TRUE, ok |-> FALSE, ev |-> NoEvent, ch |-> ch]
    ELSE [blocks |-> FALSE, ok |-> TRUE, ev |-> Head(ch), ch |-> Tail(ch)]

\* A poll that waits while the channel is empty.
Receiver_try_recv_waits(ch) ==
    IF ch = <<>>
    THEN [blocks |-> TRUE, ok |-> FALSE, ev |-> NoEvent, ch |-> ch]
    ELSE [blocks |-> FALSE, ok |-> TRUE, ev |-> Head(ch), ch |-> Tail(ch)]

\* Receiver::try_recv: Err(Empty) at once when the channel is empty.
Receiver_try_recv(ch) ==
    IF ch = <<>>
    THEN [blocks |-> FALSE, ok |-> FALSE, ev |-> NoEvent, ch |-> ch]
    ELSE [blocks |-> FALSE, ok |-> TRUE, ev |-> Head(ch), ch |-> Tail(ch)]

\* A poll that reports a key going up as a press and a key going down as a
\* release.
hid_get_event_result_swapped(recv) ==
    IF recv.ok /\ recv.ev.kind = "KeyUp"
    THEN ApiOkWith(FfiSome(KeyPress(convert_keycode(recv.ev.key))))
    ELSE IF recv.ok /\ recv.ev.kind = "KeyDown"
    THEN ApiOkWith(FfiSome(KeyRelease(convert_keycode(recv.ev.key))))
    ELSE ApiOkWith(FfiNone)

\* hid_get_event: the match on try_recv's result.
hid_get_event_result(recv) ==
    IF recv.ok /\ recv.ev.kind = "KeyUp"
    THEN ApiOkWith(FfiSome(KeyRelease(convert_keycode(recv.ev.key))))
    ELSE IF recv.ok /\ recv.ev.kind = "KeyDown"
    THEN ApiOkWith(FfiSome(KeyPress(convert_keycode(recv.ev.key))))
    ELSE ApiOkWith(FfiNone)

\* The devices: what the threads' own steps leave alone.
devices == <<VIDEO_MODE, PALETTE, HARDWARE, build, palette_calls>>

\* std::process::exit, or the main thread ending: both threads are gone.
ProcessExit == ui' = "exited" /\ guest' = "exited"

Exited == ui = "exited" /\ guest = "exited"

\* hid_get_event: lock EV_QUEUE, poll the channel once, unlock.
hid_get_event ==
    LET recv == Receiver_try_recv(channel)
        ret == hid_get_event_result(recv)
    IN  /\ guest = "running"
        /\ locks.EV_QUEUE = "free"
        /\ ~recv.blocks
        /\ channel' = recv.ch
        /\ call' = [op |-> "hid_get_event", polled |-> channel, ret |-> ret]
        /\ history' =
             [history EXCEPT
                !.delivered = IF ret.value.some THEN Append(@, ret.value.value) ELSE @,
                !.hid_started = IF recv.ok /\ recv.ev = Started THEN @ + 1 ELSE @]
        /\ UNCHANGED <<devices, memory, clock, engine, guest, ui, app, locks>>

(***************************************************************************)
(* The guest thread (the closure main spawns)                              *)
(***************************************************************************)
\* let queue = EV_QUEUE.lock().unwrap()
guest_thread_lock ==
    /\ guest = "spawned"
    /\ locks.EV_QUEUE = "free"
    /\ guest' = "startup_wait"
    /\ locks' = [locks EXCEPT !.EV_QUEUE = "guest"]
    /\ UNCHANGED <<devices, memory, clock, engine, call, ui, app, channel, history>>

\* let ev = queue.as_ref().unwrap().recv().unwrap();
\* assert_eq!(ev, AppEvent::Started); drop(queue)
guest_thread_recv ==
    LET recv == Receiver_recv(channel)
    IN  /\ guest = "startup_wait"
        /\ ~recv.blocks
        /\ channel' = recv.ch
        /\ IF recv.ev = Started
           THEN /\ guest' = "starting"
                /\ locks' = [locks EXCEPT !.EV_QUEUE = "free"]
                /\ history' = [history EXCEPT !.started_received = @ + 1]
           ELSE /\ guest' = "panicked"
                /\ locks' = [locks EXCEPT !.EV_QUEUE = "poisoned"]
                /\ UNCHANGED history
        /\ UNCHANGED <<devices, memory, clock, engine, call, ui, app>>

\* lib.get(b"os_main").expect("os_main() not found"); main_func(&BIOS_API)
guest_thread_os_main ==
    /\ guest = "starting"
    /\ \E found \in BOOLEAN :
         IF found
         THEN /\ guest' = "running"
              /\ history' = [history EXCEPT !.os_main_calls = @ + 1]
         ELSE /\ guest' = "panicked"
              /\ UNCHANGED history
    /\ UNCHANGED <<devices, memory, clock, engine, call, ui, app, channel, locks>>

\* HARDWARE.lock().unwrap() at the head of a block device call.
HARDWARE_lock ==
    /\ guest = "running"
    /\ locks.HARDWARE = "free"
    /\ guest' = "in_block_call"
    /\ locks' = [locks EXCEPT !.HARDWARE = "guest"]
    /\ UNCHANGED <<devices, memory, clock, engine, call, ui, app, channel, history>>

\* The call returns and hw_guard is dropped.
hw_guard_drop ==
    /\ guest = "in_block_call"
    /\ guest' = "running"
    /\ locks' = [locks EXCEPT !.HARDWARE = "free"]
    /\ UNCHANGED <<devices, memory, clock, engine, call, ui, app, channel, history>>

\* common::PowerMode: Off, Reset, Bootloader.
PowerModes == {"Off", "Reset", "Bootloader"}

\* What a call that ends the process hands back: nothing, it never returns.
NeverReturns == [tag |-> "Exit", code |-> 0]

\* A power_control that ends the process only for PowerMode::Off.
power_control_result_off_only(mode) ==
    IF mode = "Off" THEN NeverReturns ELSE ApiOk

\* power_control: std::process::exit(0), whatever the mode.
power_control_result(mode) == NeverReturns

power_control(mode) ==
    /\ guest = "running"
    /\ call' = [op |-> "power_control", mode |-> mode,
                ret |-> power_control_result(mode)]
    /\ IF power_control_result(mode) = NeverReturns
       THEN ProcessExit
       ELSE UNCHANGED <<ui, guest>>
    /\ UNCHANGED <<devices, memory, clock, engine, app, channel, locks, history>>

(***************************************************************************)
(* compare_and_swap_bool                                                   *)
(***************************************************************************)
\* AtomicBools of the guest that it passes to compare_and_swap_bool.
Items == {"a", "b"}

\* Contexts of the guest that call compare_and_swap_bool.
Callers == {1, 2}

\* Every item is false; nobody has tried to set one.
NoSwaps ==
    [value |-> [item \in Items |-> FALSE],
     tried |-> [item \in Items |-> {}],
     won   |-> [item \in Items |-> {}]]

\* An exchange that stores whatever the item held.
AtomicBool_compare_exchange_unconditional(value, current, new) ==
    [ok |-> TRUE, value |-> new]

\* AtomicBool::compare_exchange(current, new, SeqCst, SeqCst): one atomic
\* read-modify-write; Ok when the item held current, and only then is new
\* stored.
AtomicBool_compare_exchange(value, current, new) ==
    [ok |-> value = current, value |-> IF value = current THEN new ELSE value]

\* compare_and_swap_bool: item.compare_exchange(old_value, new_value).is_ok().
\* Of the callers that try false -> true on an item, those since the item
\* was last false are remembered, and those among them that got true.
compare_and_swap_bool(caller, item, old_value, new_value) ==
    LET done == AtomicBool_compare_exchange(atomics.value[item], old_value, new_value)
        sets == ~old_value /\ new_value
    IN  /\ guest = "running"
        /\ atomics' =
             [value |-> [atomics.value EXCEPT ![item] = done.value],
              tried |-> [atomics.tried EXCEPT
                           ![item] = IF ~done.value THEN {}
                                     ELSE IF sets THEN @ \cup {caller} ELSE @],
              won   |-> [atomics.won EXCEPT
                           ![item] = IF ~done.value THEN {}
                                     ELSE IF sets /\ done.ok THEN @ \cup {caller}
                                     ELSE @]]
        /\ call' = [op |-> "compare_and_swap_bool", caller |-> caller, item |-> item,
                    old_value |-> old_value, new_value |-> new_value,
                    ret |-> done.ok]
        /\ UNCHANGED <<devices, FRAMEBUFFER, past_end, clock, engine, guest, ui, app,
                       channel, locks, history>>

(***************************************************************************)
(* The presentation thread (engine.run on MyApp)                           *)
(***************************************************************************)
\* const NUM_FG: usize = 16
NUM_FG == 16

\* for glyph in 0..=255
NUM_GLYPHS == 256

\* A render_font that makes one texture per glyph.
render_font_one_colour(texture_buffer) ==
    IF texture_buffer > NUM_GLYPHS
    THEN texture_buffer
    ELSE NUM_GLYPHS

\* render_font: the length of texture_buffer afterwards.  A slot the buffer
\* already has is reused, a missing one is created and pushed.
render_font(texture_buffer) ==
    IF texture_buffer > NUM_GLYPHS * NUM_FG
    THEN texture_buffer
    ELSE NUM_GLYPHS * NUM_FG

\* The value of the counter `slot` in render_font when it binds the texture
\* of `glyph` drawn in palette entry `entry`, with the inner loop first.
render_font_slot_entry_major(glyph, entry) == entry * NUM_GLYPHS + glyph

\* The value of the counter `slot` in render_font when it binds the texture
\* of `glyph` drawn in palette entry `entry`: one is added per iteration,
\* and the inner loop runs NUM_FG times for each glyph before this one.
render_font_slot(glyph, entry) == glyph * NUM_FG + entry

\* A texture: the glyph drawn on it and the colour it is drawn in.
Texture(glyph, fg) == [glyph |-> glyph, fg |-> fg]

\* Glyphs and foreground entries whose textures the model keeps: the bytes
\* main and the guest put in the framebuffer.
WatchedGlyphs == {0, 32, 65, 255}

WatchedEntries == {0, 1, 15}

\* The slots of both caches the model keeps.
WatchedSlots == {glyph * NUM_FG + entry : glyph \in WatchedGlyphs, entry \in WatchedEntries}

\* render_font: the texture it leaves in `slot` of texture_buffer, drawn
\* in the colour the palette holds at that moment.
render_font_texture(palette, slot) ==
    LET it == CHOOSE it \in (0..(NUM_GLYPHS - 1)) \X (0..(NUM_FG - 1)) :
                  render_font_slot(it[1], it[2]) = slot
    IN  Texture(it[1], RGBColour_from_packed(palette[it[2]]))

\* No texture: the cache is still empty.
NoTextures == [slot \in WatchedSlots |-> Texture(0, RGBColour_from_packed(0))]

\* An on_start that sends Started after the first font.
on_start_next_one_font(pc) ==
    CASE pc = "render_font8x16" -> "send_started"
      [] pc = "render_font8x8" -> "send_started"
      [] pc = "send_started" -> "running"

\* on_start, and render_glyphs inside it: what comes after each step.
on_start_next(pc) ==
    CASE pc = "render_font8x16" -> "render_font8x8"
      [] pc = "render_font8x8" -> "send_started"
      [] pc = "send_started" -> "running"

\* The cache a step of render_glyphs fills.
FontOf(pc) == IF pc = "render_font8x16" THEN "font8x16" ELSE "font8x8"

\* render_glyphs: one render_font call.  When create_texture fails on_start
\* returns the error, engine.run(..).unwrap() panics in main and the
\* process ends.
on_start_render_font ==
    /\ ui \in {"render_font8x16", "render_font8x8"}
    /\ history' = [history EXCEPT !.handler = "on_start"]
    /\ \E created \in BOOLEAN :
         IF created
         THEN /\ app' = [app EXCEPT ![FontOf(ui)] = render_font(@)]
              /\ textures' =
                   [textures EXCEPT
                      ![FontOf(ui)] = [slot \in WatchedSlots |->
                                         render_font_texture(PALETTE, slot)]]
              /\ ui' = on_start_next(ui)
              /\ UNCHANGED guest
         ELSE /\ UNCHANGED <<app, textures>>
              /\ ProcessExit
    /\ UNCHANGED <<devices, memory, clock, frame, call, channel, locks>>

\* A send that first needs the lock of EV_QUEUE.
on_start_send_locks ==
    LET sent == Sender_send(channel, Started)
    IN  /\ ui = "send_started"
        /\ locks.EV_QUEUE = "free"
        /\ ~sent.blocks
        /\ channel' = sent.ch
        /\ ui' = on_start_next(ui)
        /\ history' = [history EXCEPT !.started_sent = @ + 1, !.handler = "on_start"]
        /\ UNCHANGED <<devices, memory, clock, engine, call, guest, app, locks>>

\* self.sender.send(AppEvent::Started).unwrap(); Ok(())
on_start_send ==
    LET sent == Sender_send(channel, Started)
    IN  /\ ui = "send_started"
        /\ ~sent.blocks
        /\ channel' = sent.ch
        /\ ui' = on_start_next(ui)
        /\ history' = [history EXCEPT !.started_sent = @ + 1, !.handler = "on_start"]
        /\ UNCHANGED <<devices, memory, clock, engine, call, guest, app, locks>>

\* Does on_event push this event: a key event that carries a key.
IsKeyEvent(event) == event.kind \in {"KeyUp", "KeyDown"} /\ event.key # "None"

\* AppEvent::KeyUp(*key), AppEvent::KeyDown(*key)
AppEvent_of(event) == [kind |-> event.kind, key |-> event.key]

\* An on_event the engine also calls while on_start has not yet sent.
on_event_during_on_start(event) ==
    LET sent == Sender_send(channel, AppEvent_of(event))
    IN  /\ ui \in {"send_started", "running"}
        /\ IF IsKeyEvent(event)
           THEN /\ Len(history.pushed) < MaxEvents
                /\ ~sent.blocks
                /\ channel' = sent.ch
                /\ history' = [history EXCEPT !.pushed = Append(@, AppEvent_of(event)),
                                              !.handler = "on_event"]
           ELSE /\ UNCHANGED channel
                /\ history' = [history EXCEPT !.handler = "on_event"]
        /\ UNCHANGED <<devices, memory, clock, engine, call, guest, ui, app, locks>>

\* on_event: key events with a key are sent, every other event is ignored.
on_event(event) ==
    LET sent == Sender_send(channel, AppEvent_of(event))
    IN  /\ ui = "running"
        /\ IF IsKeyEvent(event)
           THEN /\ Len(history.pushed) < MaxEvents
                /\ ~sent.blocks
                /\ channel' = sent.ch
                /\ history' = [history EXCEPT !.pushed = Append(@, AppEvent_of(event)),
                                              !.handler = "on_event"]
           ELSE /\ UNCHANGED channel
                /\ history' = [history EXCEPT !.handler = "on_event"]
        /\ UNCHANGED <<devices, memory, clock, engine, call, guest, ui, app, locks>>

\* on_stop: std::process::exit(0)
on_stop ==
    /\ ui = "running"
    /\ history' = [history EXCEPT !.handler = "on_stop"]
    /\ ProcessExit
    /\ UNCHANGED <<devices, memory, clock, engine, call, app, channel, locks>>

(***************************************************************************)
(* Framebuffer<N>                                                          *)
(***************************************************************************)
\* static FRAMEBUFFER: Framebuffer<{ 640 * 480 }>
FRAMEBUFFER_SIZE == 640 * 480

\* The bytes main fills: for char_idx in 0..(80 * 60), two bytes each.
FILLED_SIZE == 80 * 60 * 2

\* Attr::new(WHITE, BLACK, false).as_u8(): foreground 15, background 0.
white_on_black == 15

\* The offsets whose bytes the model keeps: the first and the last cell
\* main fills, the byte after them, and the last byte of the array.
FbOffsets == {0, 1, FILLED_SIZE - 2, FILLED_SIZE - 1, FILLED_SIZE, FRAMEBUFFER_SIZE - 1}

\* The offsets passed to write_at and get_at: those, the array's length,
\* and one more.
FbInputs == FbOffsets \cup {FRAMEBUFFER_SIZE, FRAMEBUFFER_SIZE + 1}

\* The bytes written.
FbBytes == {0, 65, 255}

\* Framebuffer::new() and main's fill: blank cells, white on black.
FRAMEBUFFER_after_main ==
    [o \in FbOffsets |->
        IF o >= FILLED_SIZE THEN 0
        ELSE IF o % 2 = 0 THEN 32 ELSE white_on_black]

\* Does the bounds check in write_at and get_at panic.
Framebuffer_panics(offset) == offset > FRAMEBUFFER_SIZE

\* What array_ptr.add(offset) points at when the check lets it through: a
\* byte of the array, or the byte that follows the array.
Framebuffer_touches(offset) ==
    IF Framebuffer_panics(offset) THEN "none"
    ELSE IF offset < FRAMEBUFFER_SIZE THEN "contents"
    ELSE "past_end"

\* A write or read that ended in a memory fault.
Faulted == [tag |-> "Fault", err |-> "None", code |-> 0]

Unit == [tag |-> "Unit"]

U8(value) == [tag |-> "U8", value |-> value]

\* Framebuffer::write_at.  A panic or a fault on the main thread ends the
\* process.  A write outside the array is undefined behaviour: it lands in
\* the neighbouring byte or faults.
Framebuffer_write_at(offset, value) ==
    LET touches == Framebuffer_touches(offset)
        Record(ret) == [op |-> "write_at", offset |-> offset, value |-> value,
                        touched |-> touches, ret |-> ret]
    IN  /\ ui # "exited"
        /\ CASE touches = "none" ->
                  /\ call' = Record(Panicked)
                  /\ ProcessExit
                  /\ UNCHANGED memory
             [] touches = "contents" ->
                  /\ call' = Record(Unit)
                  /\ FRAMEBUFFER' = [FRAMEBUFFER EXCEPT ![offset] = value]
                  /\ UNCHANGED <<past_end, atomics, ui, guest>>
             [] touches = "past_end" ->
                  \E fault \in BOOLEAN :
                    IF fault
                    THEN /\ call' = Record(Faulted)
                         /\ ProcessExit
                         /\ UNCHANGED memory
                    ELSE /\ call' = Record(Unit)
                         /\ past_end' = value
                         /\ UNCHANGED <<FRAMEBUFFER, atomics, ui, guest>>
        /\ UNCHANGED <<devices, clock, engine, app, channel, locks, history>>

\* Framebuffer::get_at.  A read outside the array is undefined behaviour:
\* it yields the neighbouring byte or faults.
Framebuffer_get_at(offset) ==
    LET touches == Framebuffer_touches(offset)
        Record(ret) == [op |-> "get_at", offset |-> offset, value |-> 0,
                        touched |-> touches, ret |-> ret]
    IN  /\ ui # "exited"
        /\ CASE touches = "none" ->
                  /\ call' = Record(Panicked)
                  /\ ProcessExit
             [] touches = "contents" ->
                  /\ call' = Record(U8(FRAMEBUFFER[offset]))
                  /\ UNCHANGED <<ui, guest>>
             [] touches = "past_end" ->
                  \E fault \in BOOLEAN :
                    IF fault
                    THEN /\ call' = Record(Faulted)
                         /\ ProcessExit
                    ELSE /\ call' = Record(U8(past_end))
                         /\ UNCHANGED <<ui, guest>>
        /\ UNCHANGED <<devices, memory, clock, engine, app, channel, locks, history>>

(***************************************************************************)
(* on_update: one frame                                                    *)
(***************************************************************************)
\* Frames drawn in one run.
MaxFrames == 2

\* const SCALE_FACTOR: f32 = 2.0
SCALE_FACTOR == 2

\* common::video::Attr: foreground in bits 0..3, background in bits 4..6.
Attr_fg(attr) == attr % 16

Attr_bg(attr) == (attr \div 16) % 8

\* Mode::horizontal_pixels: halved when bit 6 doubles the pixels.
Mode_horizontal_pixels(mode) ==
    LET pixels == IF Mode_timing(mode) = T800x600 THEN 800 ELSE 640
    IN  IF (mode \div 64) % 2 = 1 THEN pixels \div 2 ELSE pixels

\* Mode::vertical_lines: halved when bit 7 doubles the lines.
Mode_vertical_lines(mode) ==
    LET lines == CASE Mode_timing(mode) = T640x480 -> 480
                   [] Mode_timing(mode) = T640x400 -> 400
                   [] OTHER -> 600
    IN  IF mode \div 128 = 1 THEN lines \div 2 ELSE lines

\* The font_height on_update picks for the mode's format.
font_height(mode) == IF Mode_format(mode) = Text8x16 THEN 16 ELSE 8

\* Mode::text_width and Mode::text_height of a text mode.
Mode_text_width(mode) == Mode_horizontal_pixels(mode) \div 8

Mode_text_height(mode) == Mode_vertical_lines(mode) \div font_height(mode)

\* The cache on_update picks for the mode's format.
FontOfMode(mode) == IF Mode_format(mode) = Text8x16 THEN "font8x16" ELSE "font8x8"

\* The cells whose bytes the model keeps, in the order the loops reach them.
WatchedCells == <<0, FILLED_SIZE \div 2 - 1>>

\* byte_offset of a cell; the attribute is the byte after it.
byte_offset(cell_no) == cell_no * 2

\* A slot with the factor on the foreground index.
on_update_slot_transposed(glyph, fg_idx) == glyph + fg_idx * NUM_FG

\* The slot on_update looks up for a glyph and a foreground index.
on_update_slot(glyph, fg_idx) == glyph * NUM_FG + fg_idx

\* No frame has been drawn; the window is as Engine::builder() made it.
NoFrame ==
    [pc |-> "idle", mode |-> 0, cols |-> 0, rows |-> 0, at |-> 0, glyph |-> 0,
     writes |-> 0, drawn |-> <<>>, window |-> <<640, 480>>]

\* The window on_update asks for when the mode has changed.
window_dimensions(mode) ==
    <<Mode_horizontal_pixels(mode) * SCALE_FACTOR,
      Mode_vertical_lines(mode) * SCALE_FACTOR>>

\* The number of the next watched cell the loops reach after WatchedCells[at],
\* or 0 when the grid has none.
NextWatched(at, cols, rows) ==
    IF at < Len(WatchedCells) /\ WatchedCells[at + 1] < cols * rows
    THEN at + 1
    ELSE 0

\* on_update, up to the loops: load the video mode the guest set, once;
\* resize the window when it differs from the mode of the frame before;
\* pick the font and the size of the grid; a mode that is not a text mode
\* is left undrawn.
on_update ==
    LET mode == VIDEO_MODE
        text == Mode_format(mode) \in {Text8x16, Text8x8}
        num_cols == Mode_text_width(mode)
        num_rows == Mode_text_height(mode)
        first == NextWatched(0, num_cols, num_rows)
        window == IF mode # app.mode THEN window_dimensions(mode) ELSE frame.window
    IN  /\ ui = "running"
        /\ history.frames < MaxFrames
        /\ app' = [app EXCEPT !.mode = mode]
        /\ history' = [history EXCEPT !.frames = @ + 1, !.handler = "on_update"]
        /\ IF text /\ first # 0
           THEN /\ frame' = [pc |-> "glyph", mode |-> mode, cols |-> num_cols,
                             rows |-> num_rows, at |-> first, glyph |-> 0,
                             writes |-> Len(history.written), drawn |-> <<>>,
                             window |-> window]
                /\ ui' = "drawing"
           ELSE /\ frame' = [NoFrame EXCEPT !.pc = "done", !.mode = mode,
                                            !.writes = Len(history.written),
                                            !.window = window]
                /\ UNCHANGED ui
        /\ UNCHANGED <<devices, memory, clock, textures, call, guest, channel, locks>>

\* A cell drawn with the attribute main filled the buffer with.
Drawn_startup_attr(cell_no, glyph, attr, palette, font) ==
    [cell |-> cell_no, glyph |-> glyph, attr |-> white_on_black,
     bg |-> RGBColour_from_packed(palette[Attr_bg(white_on_black)]),
     slot |-> on_update_slot(glyph, Attr_fg(white_on_black)),
     texture |-> font[on_update_slot(glyph, Attr_fg(white_on_black))]]

\* The cell on_update draws: the background from the palette as it is now,
\* the texture from the cache.
Drawn(cell_no, glyph, attr, palette, font) ==
    [cell |-> cell_no, glyph |-> glyph, attr |-> attr,
     bg |-> RGBColour_from_packed(palette[Attr_bg(attr)]),
     slot |-> on_update_slot(glyph, Attr_fg(attr)),
     texture |-> font[on_update_slot(glyph, Attr_fg(attr))]]

\* A frame that looks at VIDEO_MODE again for every cell.
on_update_get_at_reloads ==
    LET cell_no == WatchedCells[frame.at]
        offset == IF frame.pc = "glyph" THEN byte_offset(cell_no)
                  ELSE byte_offset(cell_no) + 1
        byte == FRAMEBUFFER[offset]
        slot == on_update_slot(frame.glyph, Attr_fg(byte))
        next == NextWatched(frame.at, Mode_text_width(VIDEO_MODE),
                            Mode_text_height(VIDEO_MODE))
    IN  /\ ui = "drawing"
        /\ IF Framebuffer_panics(offset)
           THEN /\ frame' = [frame EXCEPT !.pc = "panicked"]
                /\ ProcessExit
           ELSE IF frame.pc = "glyph"
           THEN /\ frame' = [frame EXCEPT !.pc = "attr", !.glyph = byte]
                /\ UNCHANGED <<ui, guest>>
           ELSE IF slot >= app[FontOfMode(VIDEO_MODE)]
           THEN /\ frame' = [frame EXCEPT !.pc = "panicked"]
                /\ ProcessExit
           ELSE /\ frame' =
                     [frame EXCEPT
                        !.pc = IF next = 0 THEN "done" ELSE "glyph",
                        !.at = next,
                        !.drawn = Append(@, Drawn(cell_no, frame.glyph, byte, PALETTE,
                                                  textures[FontOfMode(VIDEO_MODE)]))]
                /\ ui' = IF next = 0 THEN "running" ELSE "drawing"
                /\ UNCHANGED guest
        /\ UNCHANGED <<devices, memory, clock, textures, call, app, channel, locks,
                       history>>

\* One FRAMEBUFFER.get_at of the loops: the glyph of the next cell, or its
\* attribute, after which the cell is drawn.  An offset get_at refuses and
\* a slot the cache does not have panic on the main thread, which ends the
\* process.
on_update_get_at ==
    LET cell_no == WatchedCells[frame.at]
        offset == IF frame.pc = "glyph" THEN byte_offset(cell_no)
                  ELSE byte_offset(cell_no) + 1
        byte == FRAMEBUFFER[offset]
        slot == on_update_slot(frame.glyph, Attr_fg(byte))
        next == NextWatched(frame.at, frame.cols, frame.rows)
    IN  /\ ui = "drawing"
        /\ IF Framebuffer_panics(offset)
           THEN /\ frame' = [frame EXCEPT !.pc = "panicked"]
                /\ ProcessExit
           ELSE IF frame.pc = "glyph"
           THEN /\ frame' = [frame EXCEPT !.pc = "attr", !.glyph = byte]
                /\ UNCHANGED <<ui, guest>>
           ELSE IF slot >= app[FontOfMode(frame.mode)]
           THEN /\ frame' = [frame EXCEPT !.pc = "panicked"]
                /\ ProcessExit
           ELSE /\ frame' =
                     [frame EXCEPT
                        !.pc = IF next = 0 THEN "done" ELSE "glyph",
                        !.at = next,
                        !.drawn = Append(@, Drawn(cell_no, frame.glyph, byte, PALETTE,
                                                  textures[FontOfMode(frame.mode)]))]
                /\ ui' = IF next = 0 THEN "running" ELSE "drawing"
                /\ UNCHANGED guest
        /\ UNCHANGED <<devices, memory, clock, textures, call, app, channel, locks,
                       history>>

\* Writes of the guest to the text buffer in one run.
MaxWrites == 2

\* The guest stores a byte through the pointer video_get_framebuffer gave it.
guest_write(offset, value) ==
    /\ guest = "running"
    /\ Len(history.written) < MaxWrites
    /\ FRAMEBUFFER' = [FRAMEBUFFER EXCEPT ![offset] = value]
    /\ history' = [history EXCEPT !.written = Append(@, <<offset, value>>)]
    /\ UNCHANGED <<devices, past_end, atomics, clock, engine, call, guest, ui, app,
                   channel, locks>>

\* A pointer: the allocation it points into and the offset in it.
Pointer(region, offset) == [tag |-> "Ptr", region |-> region, offset |-> offset]

NullPointer == Pointer("null", 0)

\* FRAMEBUFFER.get_pointer(): self.contents.get() as *mut u8, the address
\* of the static array.
Framebuffer_get_pointer == Pointer("FRAMEBUFFER.contents", 0)

\* video_get_framebuffer: the pointer it returns.
video_get_framebuffer_result == Framebuffer_get_pointer

video_get_framebuffer ==
    /\ guest = "running"
    /\ call' = [op |-> "video_get_framebuffer", ret |-> video_get_framebuffer_result]
    /\ UNCHANGED <<devices, memory, clock, engine, threads, guest>>

\* The pointers the guest passes to video_set_framebuffer: null, the
\* arena and a byte inside it, and memory of its own.
PointerArgs ==
    {NullPointer, Framebuffer_get_pointer, Pointer("FRAMEBUFFER.contents", FILLED_SIZE),
     Pointer("guest RAM", 0)}

\* A video_set_framebuffer that accepts every pointer but null.
video_set_framebuffer_result_accepts(buffer) ==
    IF buffer = NullPointer THEN ApiErr("Unimplemented", 0) ELSE ApiOk

\* video_set_framebuffer: Err(common::Error::Unimplemented).into()
video_set_framebuffer_result(buffer) == ApiErr("Unimplemented", 0)

video_set_framebuffer(buffer) ==
    /\ guest = "running"
    /\ call' = [op |-> "video_set_framebuffer", buffer |-> buffer,
                ret |-> video_set_framebuffer_result(buffer)]
    /\ UNCHANGED <<devices, memory, clock, engine, threads, guest>>

(***************************************************************************)
(* Entry points of the peripherals the emulator does not have              *)
(***************************************************************************)
Unimplemented == ApiErr("Unimplemented", 0)

U32(value) == [tag |-> "U32", value |-> value]

\* What each of these entry points returns: the value its body ends with.
StubReturn ==
    [op \in {"serial_get_info", "i2c_bus_get_info", "audio_mixer_channel_get_info",
             "bus_get_info"} |-> FfiNone]
    @@ [op \in {"serial_configure", "serial_write", "serial_read",
                "configuration_get", "configuration_set", "hid_set_leds",
                "i2c_write_read", "audio_mixer_channel_set_level",
                "audio_output_set_config", "audio_output_get_config",
                "audio_output_data", "audio_output_get_space",
                "audio_input_set_config", "audio_input_get_config",
                "audio_input_data", "audio_input_get_count",
                "bus_write_read", "bus_exchange"} |-> Unimplemented]
    @@ [op \in {"bus_select"} |-> Unit]
    @@ [op \in {"bus_interrupt_status"} |-> U32(0)]

StubOps == DOMAIN StubReturn

\* The argument of the call: a device, bus, channel or peripheral id, or
\* the length of the buffer passed.
StubArgs == {0, 1, 255}

\* An entry point that, besides returning, puts the video mode back to 0.
stub_call_resets_mode(op, arg) ==
    /\ guest = "running"
    /\ call' = [op |-> op, arg |-> arg, ret |-> StubReturn[op]]
    /\ VIDEO_MODE' = 0
    /\ UNCHANGED <<PALETTE, HARDWARE, build, palette_calls, memory, clock, engine,
                   threads, guest>>

\* One of these entry points: it logs the call and returns.
stub_call(op, arg) ==
    /\ guest = "running"
    /\ call' = [op |-> op, arg |-> arg, ret |-> StubReturn[op]]
    /\ UNCHANGED <<devices, memory, clock, engine, threads, guest>>

(***************************************************************************)
(* Time: ticks since boot and the wall clock                               *)
(***************************************************************************)
\* The host may run this long after boot, in microseconds.
MaxElapsed == 3000

\* Instant::now() when main builds Hardware, in microseconds of the host's
\* monotonic clock.
BootInstant == 5000

\* SystemTime::now() at that moment: a day in November 2026.
SystemAtBoot == [secs |-> <<64000, 27370, 0, 0>>, nanos |-> 0]

\* Steps of the host's monotonic clock, in microseconds.
InstantSteps == {400, 1000}

\* 946684800 seconds between 1970-01-01 and 2000-01-01, as a u64.
EPOCH_2000 == <<17280, 14445, 0, 0>>

\* u64::from(u32::MAX)
U32_MAX == <<65535, 65535, 0, 0>>

\* SystemTime values of the host, seconds since 1970 as a u64: 1970,
\* the last second of 1999, the first of 2000, a day in 2026, the last
\* second a u32 counts from 2000, and the two seconds after it.
SystemSeconds ==
    {<<0, 0, 0, 0>>, <<17279, 14445, 0, 0>>, <<17280, 14445, 0, 0>>,
     <<64000, 27370, 0, 0>>, <<17279, 14445, 1, 0>>, <<17280, 14445, 1, 0>>,
     <<17281, 14445, 1, 0>>}

SystemTimes == [secs : SystemSeconds, nanos : {0, 999999999}]

\* x < y on u64 values.
U64_less(x, y) ==
    \E i \in 1..4 : x[i] < y[i] /\ \A j \in (i + 1)..4 : x[j] = y[j]

\* x - y on u64 values, for y <= x.
U64_sub(x, y) ==
    LET d1 == x[1] - y[1]
        d2 == x[2] - y[2] - (IF d1 < 0 THEN 1 ELSE 0)
        d3 == x[3] - y[3] - (IF d2 < 0 THEN 1 ELSE 0)
        d4 == x[4] - y[4] - (IF d3 < 0 THEN 1 ELSE 0)
    IN  <<(d1 + Limb) % Limb, (d2 + Limb) % Limb, (d3 + Limb) % Limb,
          (d4 + Limb) % Limb>>

\* epoch.elapsed().unwrap_or_default(): zero when the host clock is before
\* the epoch.
Elapsed_since(now, epoch) ==
    IF U64_less(now.secs, epoch)
    THEN [secs |-> <<0, 0, 0, 0>>, nanos |-> 0]
    ELSE [secs |-> U64_sub(now.secs, epoch), nanos |-> now.nanos]

\* common::Time { secs: u32, nsecs: u32 }
Time(secs, nsecs) == [tag |-> "Time", secs |-> secs, nsecs |-> nsecs]

\* A time_clock_get without the assertion: the seconds are cut to 32 bits.
time_clock_get_result_truncates(now) ==
    LET difference == Elapsed_since(now, EPOCH_2000)
    IN  Time(<<difference.secs[1], difference.secs[2]>>, difference.nanos)

\* time_clock_get: the assertion, then `as u32`.
time_clock_get_result(now) ==
    LET difference == Elapsed_since(now, EPOCH_2000)
    IN  IF U64_less(U32_MAX, difference.secs)
        THEN Panicked
        ELSE Time(<<difference.secs[1], difference.secs[2]>>, difference.nanos)

time_clock_get ==
    LET ret == time_clock_get_result(clock.system)
    IN  /\ guest = "running"
        /\ call' = [op |-> "time_clock_get", ret |-> ret]
        /\ guest' = AfterCall(ret)
        /\ UNCHANGED <<devices, memory, clock, engine, threads>>

\* The times the guest passes to time_clock_set.
TimesSet == {Time(<<0, 0>>, 0), Time(<<65535, 65535>>, 999999999)}

\* time_clock_set: logs the time and returns.
time_clock_set(time) ==
    /\ guest = "running"
    /\ call' = [op |-> "time_clock_set", time |-> time, ret |-> Unit]
    /\ UNCHANGED <<devices, memory, clock, engine, threads, guest>>

\* common::Ticks(u64)
Ticks(value) == [tag |-> "Ticks", value |-> value]

\* Ticks that count from the origin of the host's clock, not from boot.
time_ticks_get_result_no_boot_time(hw, now) == Ticks(now \div 1000)

\* time_ticks_get: boot_time.elapsed().as_millis() as u64.
time_ticks_get_result(hw, now) == Ticks((now - hw.boot_time) \div 1000)

time_ticks_get ==
    LET ret == time_ticks_get_result(HARDWARE, clock.instant)
    IN  /\ guest = "running"
        /\ locks.HARDWARE = "free"
        /\ call' = [op |-> "time_ticks_get", ret |-> ret]
        /\ locks' = [locks EXCEPT !.HARDWARE = hw_guard_dropped(ret)]
        /\ history' = [history EXCEPT !.ticks = ret.value]
        /\ UNCHANGED <<devices, memory, clock, engine, guest, ui, app, channel>>

time_ticks_per_second ==
    /\ guest = "running"
    /\ call' = [op |-> "time_ticks_per_second", ret |-> Ticks(1000)]
    /\ UNCHANGED <<devices, memory, clock, engine, threads, guest>>

\* Time passes on the host: Instant::now() grows.
host_time_passes(step) ==
    /\ ui # "exited"
    /\ clock.instant + step <= HARDWARE.boot_time + MaxElapsed
    /\ clock' = [clock EXCEPT !.instant = @ + step]
    /\ UNCHANGED <<devices, memory, engine, threads, guest, call>>

\* The host's wall clock is set: SystemTime::now() jumps.
host_sets_system_time(time) ==
    /\ ui # "exited"
    /\ clock' = [clock EXCEPT !.system = time]
    /\ UNCHANGED <<devices, memory, engine, threads, guest, call>>

(***************************************************************************)
(* The state after main's setup, and the specifications.                   *)
(***************************************************************************)
\* The statics once main has set HARDWARE and filled the framebuffer.
InitDevices ==
    /\ clock = [instant |-> BootInstant, system |-> SystemAtBoot]
    /\ frame = NoFrame
    /\ VIDEO_MODE = 0
    /\ PALETTE = [i \in 0..(PALETTE_LEN - 1) |-> StartupPalette[i + 1]]
    /\ HARDWARE \in {Hardware_new(clock.instant, disk) : disk \in DiskArgs}
    /\ build \in [overflow_checks : BOOLEAN]
    /\ palette_calls = 0
    /\ call = NoCall
    /\ FRAMEBUFFER = FRAMEBUFFER_after_main
    /\ past_end = 0
    /\ atomics = NoSwaps

\* main has put the receiver in EV_QUEUE and spawned the guest thread, and
\* enters engine.run, which calls on_start.
Init ==
    /\ InitDevices
    /\ guest = "spawned"
    /\ ui = "render_font8x16"
    /\ app = [mode |-> 0, font8x16 |-> 0, font8x8 |-> 0]
    /\ textures = [font8x16 |-> NoTextures, font8x8 |-> NoTextures]
    /\ channel = <<>>
    /\ locks = [EV_QUEUE |-> "free", HARDWARE |-> "free"]
    /\ history = [pushed |-> <<>>, delivered |-> <<>>, started_sent |-> 0,
                  started_received |-> 0, os_main_calls |-> 0, hid_started |-> 0,
                  frames |-> 0, handler |-> "none", ticks |-> 0, written |-> <<>>]

\* The state in which os_main starts: on_start has run, the guest thread
\* has taken Started out of the channel and called the guest.
InitRunning ==
    /\ InitDevices
    /\ guest = "running"
    /\ ui = "running"
    /\ app = [mode |-> 0, font8x16 |-> render_font(0), font8x8 |-> render_font(0)]
    /\ textures = [font \in {"font8x16", "font8x8"} |->
                     [slot \in WatchedSlots |-> render_font_texture(PALETTE, slot)]]
    /\ channel = <<>>
    /\ locks = [EV_QUEUE |-> "free", HARDWARE |-> "free"]
    /\ history = [pushed |-> <<>>, delivered |-> <<>>, started_sent |-> 1,
                  started_received |-> 1, os_main_calls |-> 1, hid_started |-> 0,
                  frames |-> 0, handler |-> "on_start", ticks |-> 0, written |-> <<>>]

NextVideo ==
    \/ \E mode \in Modes : video_is_valid_mode(mode)
    \/ \E mode \in Modes : video_set_mode(mode)
    \/ video_get_mode
    \/ video_get_framebuffer
    \/ \E buffer \in PointerArgs : video_set_framebuffer(buffer)

NextPalette ==
    \/ \E index \in PaletteIndexes : video_get_palette(index)
    \/ \E index \in PaletteIndexes, rgb \in Colours : video_set_palette(index, rgb)
    \/ \E slice \in ColourLists : video_set_whole_palette(slice)

NextBlock ==
    \/ \E args \in BlockArgs : \E buffer \in Buffers(HARDWARE, args[2], args[3]) :
         block_write(args[1], args[2], args[3], buffer)
    \/ \E args \in BlockArgs : \E buffer \in ReadBuffers(args[3]) :
         block_read(args[1], args[2], args[3], buffer.null, buffer.bytes)
    \/ \E args \in BlockArgs : \E buffer \in Buffers(HARDWARE, args[2], args[3]) :
         block_verify(args[1], args[2], args[3], buffer)
    \/ \E dev_id \in DeviceIds : block_dev_get_info(dev_id)
    \/ \E dev_id \in DeviceIds : block_dev_eject(dev_id)
    \/ time_ticks_get

NextThreads ==
    \/ on_start_render_font
    \/ on_start_send
    \/ \E event \in Events : on_event(event)
    \/ on_update
    \/ on_update_get_at
    \/ on_stop
    \/ guest_thread_lock
    \/ guest_thread_recv
    \/ guest_thread_os_main
    \/ hid_get_event
    \/ HARDWARE_lock
    \/ hw_guard_drop
    \/ \E mode \in PowerModes : power_control(mode)

NextFramebuffer ==
    \/ \E offset \in FbInputs, value \in FbBytes : Framebuffer_write_at(offset, value)
    \/ \E offset \in FbInputs : Framebuffer_get_at(offset)

NextStubs == \E op \in StubOps, arg \in StubArgs : stub_call(op, arg)

NextAtomics ==
    \E caller \in Callers, item \in Items, old_value \in BOOLEAN, new_value \in BOOLEAN :
       compare_and_swap_bool(caller, item, old_value, new_value)

Next ==
    NextVideo \/ NextPalette \/ NextBlock \/ NextThreads \/ NextFramebuffer
    \/ NextStubs \/ NextAtomics

Spec == Init /\ [][Next]_vars

\* The process started without a disk image, built without overflow checks.
NoDiskImage == ~HARDWARE.disk_file.some /\ ~build.overflow_checks

\* The guest has started; no disk image.
InitNoDisk == InitRunning /\ NoDiskImage

\* The guest calls only the video mode entry points.
SpecVideo == InitNoDisk /\ [][NextVideo]_vars

\* The guest calls only the palette entry points.
SpecPalette == InitNoDisk /\ [][NextPalette]_vars

\* The guest calls only the block device entry points.
SpecBlock == InitRunning /\ [][NextBlock]_vars

\* main enters engine.run; no disk image.
InitThreads == Init /\ NoDiskImage

\* The two threads from the moment main enters engine.run: startup, the
\* event bridge, the locks, and the end of the process.
SpecThreads == InitThreads /\ [][NextThreads]_vars

\* The same two threads under the scheduler of the host: a thread that can
\* take its next step is not held back for ever.  That covers the send of
\* on_start on the main thread and the three steps of the guest thread's
\* closure; the window, the frames and the guest's polls stay free.
SpecThreadsFair ==
    /\ InitThreads
    /\ [][NextThreads]_vars
    /\ WF_vars(on_start_send)
    /\ WF_vars(guest_thread_lock)
    /\ WF_vars(guest_thread_recv)
    /\ WF_vars(guest_thread_os_main)

\* Two contexts of the guest call compare_and_swap_bool on two items, in
\* any order.
SpecAtomics == InitNoDisk /\ [][NextAtomics]_vars

\* write_at and get_at applied to offsets inside and outside the array.
SpecFramebuffer == InitNoDisk /\ [][NextFramebuffer]_vars

\* The guest calls the entry points of the missing peripherals, and sets
\* video modes in between.
NextStubsAndModes ==
    \/ NextStubs
    \/ \E mode \in SupportedModes : video_set_mode(mode)

SpecStubs == InitRunning /\ [][NextStubsAndModes]_vars

\* The guest reads the tick counter and the wall clock while the host's
\* clocks move.
NextTime ==
    \/ \E step \in InstantSteps : host_time_passes(step)
    \/ \E time \in SystemTimes : host_sets_system_time(time)
    \/ time_ticks_get
    \/ time_ticks_per_second
    \/ time_clock_get
    \/ \E time \in TimesSet : time_clock_set(time)

SpecTime == InitNoDisk /\ [][NextTime]_vars

\* The guest changes the palette while frames are drawn.
NextCache ==
    \/ \E index \in PaletteIndexes, rgb \in Colours : video_set_palette(index, rgb)
    \/ \E slice \in ColourLists : video_set_whole_palette(slice)
    \/ on_update
    \/ on_update_get_at

SpecCache == InitNoDisk /\ [][NextCache]_vars

\* Modes the guest sets between frames: the startup mode, 80 x 60 cells,
\* 40 x 30 doubled cells, and 800 x 600, which is refused.
FrameModes ==
    {Mode_new(T640x480, Text8x16), Mode_new(T640x480, Text8x8),
     Mode_new(T640x480, Text8x8) + 64 + 128, Mode_new(T800x600, Text8x8)}

\* The bytes the guest rewrites: the glyph and the attribute of the first
\* cell, and the attribute of the last cell of the largest grid.
CellOffsets == {0, 1, FILLED_SIZE - 1}

\* The values it writes.
CellBytes == {65, 255}

\* The guest writes text cells and sets modes while frames are drawn.
NextFrame ==
    \/ \E offset \in CellOffsets, value \in CellBytes : guest_write(offset, value)
    \/ \E mode \in FrameModes : video_set_mode(mode)
    \/ on_update
    \/ on_update_get_at

SpecFrame == InitNoDisk /\ [][NextFrame]_vars

\* The guest writes the first cell's glyph, sets the first and the last
\* text colour, and changes the mode in between.
NextModeChange ==
    \/ \E value \in CellBytes : guest_write(0, value)
    \/ \E index \in {0, 15}, rgb \in Colours : video_set_palette(index, rgb)
    \/ \E mode \in FrameModes : video_set_mode(mode)

SpecModeChange == InitNoDisk /\ [][NextModeChange]_vars

\* Palette entries the guest sets and gets while frames read the palette:
\* the background of the cells drawn, its neighbour, and the last entry.
SlotIndexes == {0, 1, 255}

\* The guest sets and gets single entries while frames are drawn.
NextPaletteReads ==
    \/ \E index \in SlotIndexes, rgb \in Colours : video_set_palette(index, rgb)
    \/ \E index \in SlotIndexes : video_get_palette(index)
    \/ on_update
    \/ on_update_get_at

SpecPaletteReads == InitNoDisk /\ [][NextPaletteReads]_vars

(***************************************************************************)
(* Video mode claims (SpecVideo)                                           *)
(***************************************************************************)
\* C1: for each of the four supported modes m, video_set_mode(m) returns Ok
\* and a video_get_mode that follows it returns exactly m.
C1_SetSupportedThenGet ==
    [][/\ (call'.op = "video_set_mode" /\ call'.mode \in SupportedModes)
            => /\ call'.ret = ApiOk
               /\ video_get_mode_result(VIDEO_MODE') = call'.mode
       /\ (/\ call.op = "video_set_mode" /\ call.mode \in SupportedModes
           /\ call'.op = "video_get_mode")
            => call'.ret = call.mode]_vars

\* A video_get_mode has returned 640x400 in 8x8 text, which is not the
\* startup mode: a video_set_mode stored it.
C1_Witness ==
    call.op = "video_get_mode" /\ call.ret = Mode_new(T640x400, Text8x8)

\* C2: for every mode whose (timing, format) pair is not one of the four
\* supported pairs, video_set_mode returns
\* Err(UnsupportedConfiguration(raw mode)) and leaves the stored mode as it
\* was.
C2_RejectUnsupported ==
    [][(call'.op = "video_set_mode" /\ ~SupportedCombination(call'.mode))
          => /\ call'.ret = ApiErr("UnsupportedConfiguration", call'.mode)
             /\ VIDEO_MODE' = VIDEO_MODE
             /\ video_get_mode_result(VIDEO_MODE') = video_get_mode_result(VIDEO_MODE)]_vars

\* An 800x600 mode was rejected while the stored mode was not the startup
\* mode.
C2_Witness ==
    /\ call.op = "video_set_mode"
    /\ call.mode = Mode_new(T800x600, Text8x16)
    /\ call.ret.tag = "Err"
    /\ VIDEO_MODE = Mode_new(T640x400, Text8x8)

\* C3: in every reachable state the stored video mode is one of exactly
\* four values, the startup mode or one of the other three supported
\* (timing, format) combinations.
C3_StoredModeOneOfFour == VIDEO_MODE \in SupportedModes

\* C4: video_is_valid_mode(m) is true for every mode video_set_mode accepts
\* and false for every mode it rejects.
C4_ValidIffAccepted ==
    call.op = "video_is_valid_mode"
        => (call.ret <=> (video_set_mode_result(call.mode) = ApiOk))

(***************************************************************************)
(* Palette claims (SpecPalette)                                            *)
(***************************************************************************)
\* Whether the call writes palette slot i.
WritesSlot(c, i) ==
    \/ c.op = "video_set_palette" /\ c.index = i
    \/ c.op = "video_set_whole_palette" /\ i < Len(c.slice)

\* C5: video_set_palette(i, C) makes video_get_palette(i) return Some(C),
\* a call that does not write slot i leaves what video_get_palette(i)
\* returns, so a later video_get_palette(i) returns Some(C) too; and
\* video_get_palette returns None for no u8 index.
C5_SetThenGet ==
    [][/\ call'.op = "video_set_palette"
            => video_get_palette_result(PALETTE', call'.index) = FfiSome(call'.rgb)
       /\ \A i \in 0..255 :
            /\ video_get_palette_result(PALETTE', i).some
            /\ ~WritesSlot(call', i)
                 => video_get_palette_result(PALETTE', i)
                        = video_get_palette_result(PALETTE, i)
       /\ (/\ call.op = "video_set_palette" /\ call'.op = "video_get_palette"
           /\ call'.index = call.index)
            => call'.ret = FfiSome(call.rgb)]_vars

\* video_get_palette(255) has returned a colour the startup palette does
\* not hold: a video_set_palette(255, C) stored it.
C5_Witness ==
    /\ call.op = "video_get_palette"
    /\ call.index = 255
    /\ call.ret = FfiSome([red |-> 1, green |-> 2, blue |-> 3])

\* C6: video_set_whole_palette with a list of n colours makes entries
\* 0 .. min(n, 256) - 1 the colours of the list in order and leaves every
\* entry from n on as it was; colours of the list after its 256th are
\* ignored, the palette keeps its 256 entries.
C6_WholePalette ==
    [][call'.op = "video_set_whole_palette"
          => /\ DOMAIN PALETTE' = 0..255
             /\ \A i \in 0..255 :
                  video_get_palette_result(PALETTE', i) =
                      IF i < Len(call'.slice)
                      THEN FfiSome(call'.slice[i + 1])
                      ELSE video_get_palette_result(PALETTE, i)]_vars

\* A list of one colour was set after a list of 300: entry 0 is the one
\* colour, entry 255 is still the 256th colour of the long list.
C6_Witness ==
    /\ call.op = "video_set_whole_palette"
    /\ Len(call.slice) = 1
    /\ PALETTE[0] = RGBColour_as_packed(call.slice[1])
    /\ PALETTE[255] = RGBColour_as_packed(ColourList(300, 1)[256])
    /\ PALETTE[255] # StartupPalette[256]

(***************************************************************************)
(* Block device claims (SpecBlock)                                         *)
(***************************************************************************)
\* S: the whole blocks of the backing file.
DiskBlocks(hw) == Len(hw.disk_file.file.data) \div BLOCK_SIZE

\* The block index is a small number (its upper limbs are zero).
SmallIdx(block_idx) == block_idx[2] = 0 /\ block_idx[3] = 0 /\ block_idx[4] = 0

\* The call is on device 0 of a process started with a disk image.
OnDisk(c, hw) == hw.disk_file.some /\ c.dev_id = 0

\* The call's blocks i .. i + k - 1 all lie in the file: i + k <= S.
InRange(c, hw) ==
    /\ OnDisk(c, hw)
    /\ SmallIdx(c.block_idx)
    /\ c.block_idx[1] + c.num_blocks <= DiskBlocks(hw)

\* The call's range extends past the end of the file: i + k > S.
PastEnd(c, hw) ==
    /\ OnDisk(c, hw)
    /\ \/ ~SmallIdx(c.block_idx)
       \/ c.block_idx[1] + c.num_blocks > DiskBlocks(hw)

\* The guest passed a real buffer of exactly num_blocks * 512 bytes.
ExactBuffer(c) == ~c.null /\ Len(c.buffer) = c.num_blocks * BLOCK_SIZE

\* Two calls name the same device and blocks.
SameBlocks(c, d) ==
    c.dev_id = d.dev_id /\ c.block_idx = d.block_idx /\ c.num_blocks = d.num_blocks

\* C7: with a disk image of S blocks, for i + k <= S, block_write(0, i, k, B)
\* returns Ok and a block_read(0, i, k, buf) that follows it returns Ok with
\* buf equal to the k * 512 bytes of B.
C7_WriteThenRead ==
    [][/\ (call'.op = "block_write" /\ InRange(call', HARDWARE) /\ ExactBuffer(call'))
            => call'.ret = ApiOk
       /\ (/\ call.op = "block_write" /\ InRange(call, HARDWARE) /\ ExactBuffer(call)
           /\ call'.op = "block_read" /\ SameBlocks(call, call') /\ ExactBuffer(call'))
            => /\ call'.ret = ApiOk
               /\ call'.out = call.buffer]_vars

\* C8: with a backing file of S blocks, a block_read or block_write on
\* device 0 whose range extends past the end of the file (i + k > S)
\* returns Err(BlockOutOfBounds).
C8_PastEndOutOfBounds ==
    (/\ call.op \in {"block_read", "block_write"}
     /\ PastEnd(call, HARDWARE) /\ ExactBuffer(call))
        => call.ret = ApiErr("BlockOutOfBounds", 0)

\* The bytes the file holds at the call's blocks.
Stored(c, hw) ==
    SubSeq(hw.disk_file.file.data, c.block_idx[1] * BLOCK_SIZE + 1,
           (c.block_idx[1] + c.num_blocks) * BLOCK_SIZE)

\* C9: after an in-range block_write(0, i, k, B), block_verify(0, i, k, B)
\* returns Ok; an in-range block_verify with bytes that differ from the
\* stored ones returns Err(DeviceError(1)), 1 not being the sub-code of an
\* I/O failure (0).
C9_WriteThenVerify ==
    [][/\ (/\ call.op = "block_write" /\ InRange(call, HARDWARE) /\ ExactBuffer(call)
           /\ call'.op = "block_verify" /\ SameBlocks(call, call')
           /\ call'.buffer = call.buffer)
            => call'.ret = ApiOk
       /\ (/\ call'.op = "block_verify" /\ InRange(call', HARDWARE) /\ ExactBuffer(call')
           /\ call'.buffer # Stored(call', HARDWARE))
            => call'.ret = ApiErr("DeviceError", 1)]_vars

\* The backing file: is there one, and its bytes (which give its length).
BackingFile(hw) ==
    IF hw.disk_file.some THEN <<TRUE, hw.disk_file.file.data>> ELSE <<FALSE, <<>>>>

\* C10: block_verify never changes the backing file: whatever the device
\* id, block index, block count and buffer, and whatever it returns, the
\* file's contents and length are the same before and after the call.
C10_VerifyKeepsFile ==
    [][call'.op = "block_verify" => BackingFile(HARDWARE') = BackingFile(HARDWARE)]_vars

\* A block_verify of one in-range block found a difference.
C10_Witness ==
    /\ call.op = "block_verify"
    /\ InRange(call, HARDWARE) /\ call.num_blocks = 1
    /\ call.ret = ApiErr("DeviceError", 1)
    /\ Len(HARDWARE.disk_file.file.data) >= BLOCK_SIZE

(***************************************************************************)
(* Block device information and errors (SpecBlock)                         *)
(***************************************************************************)
\* C11: block_dev_get_info(0) returns None when the process was started
\* without a disk image, and otherwise a descriptor with block_size 512,
\* num_blocks = the file length divided by 512 rounded down, media_present
\* true, removable false and ejectable false; for every other device id it
\* returns None.
C11_GetInfo ==
    [][call'.op = "block_dev_get_info" =>
         IF call'.dev_id = 0 /\ HARDWARE.disk_file.some
         THEN /\ call'.ret.some
              /\ call'.ret.value.block_size = 512
              /\ call'.ret.value.num_blocks * 512 <= Len(HARDWARE.disk_file.file.data)
              /\ Len(HARDWARE.disk_file.file.data) < (call'.ret.value.num_blocks + 1) * 512
              /\ call'.ret.value.media_present
              /\ ~call'.ret.value.removable
              /\ ~call'.ret.value.ejectable
         ELSE call'.ret = FfiNone]_vars

\* Device 0 of a 612 byte image was described as holding one block.
C11_Witness ==
    /\ call.op = "block_dev_get_info" /\ call.dev_id = 0
    /\ HARDWARE.disk_file.some
    /\ Len(HARDWARE.disk_file.file.data) = BLOCK_SIZE + 100
    /\ call.ret.some /\ call.ret.value.num_blocks = 1

\* The three block transfer entry points.
BlockTransfers == {"block_read", "block_write", "block_verify"}

\* C12: block_read, block_write and block_verify return Err(InvalidDevice)
\* for every device id other than 0, with or without a disk image, and
\* Err(DeviceError) for device 0 when there is no disk image; in both cases
\* the caller's buffer comes back as it was passed and nothing but the
\* record of the call changes.
C12_DeviceErrors ==
    [][call'.op \in BlockTransfers /\ (call'.dev_id # 0 \/ ~HARDWARE.disk_file.some) =>
         /\ call'.ret = IF call'.dev_id # 0 THEN ApiErr("InvalidDevice", 0)
                        ELSE ApiErr("DeviceError", 0)
         /\ call'.out = call'.buffer
         /\ UNCHANGED <<HARDWARE, VIDEO_MODE, PALETTE, guest, threads, memory>>]_vars

\* A block_read of device 1 was refused although no disk image is present.
C12_Witness ==
    /\ call.op = "block_read" /\ call.dev_id = 1 /\ call.num_blocks = 1
    /\ ~HARDWARE.disk_file.some
    /\ call.ret = ApiErr("InvalidDevice", 0)

(***************************************************************************)
(* Event bridge, startup and termination claims (SpecThreads)              *)
(***************************************************************************)
\* The key events in a channel, in order.
KeyEventsIn(ch) == SelectSeq(ch, LAMBDA ev : ev.kind \in {"KeyUp", "KeyDown"})

\* C13: the events hid_get_event has returned so far are the first of the
\* key events on_event has pushed so far, in the same order, a KeyDown as a
\* KeyPress and a KeyUp as a KeyRelease of the key's translated code; the
\* pushed events not yet returned are the ones waiting in the channel, so
\* none is reordered, duplicated, invented or dropped.
C13_DeliveredIsPrefix ==
    /\ Len(history.delivered) <= Len(history.pushed)
    /\ \A i \in 1..Len(history.delivered) :
         /\ history.delivered[i].kind =
              (IF history.pushed[i].kind = "KeyDown" THEN "KeyPress" ELSE "KeyRelease")
         /\ history.delivered[i].code = convert_keycode(history.pushed[i].key)
    /\ KeyEventsIn(channel) =
         SubSeq(history.pushed, Len(history.delivered) + 1, Len(history.pushed))

\* Hash went down and Return went up, and the guest has been handed both.
C13_Witness ==
    /\ history.pushed = <<KeyDown("Hash"), KeyUp("Return")>>
    /\ history.delivered = <<KeyPress("Oem7"), KeyRelease("Return")>>

\* C14: hid_get_event never blocks: whenever the guest is running the call
\* can be made and completes, whatever the presentation thread has done,
\* and a poll that found no key event in the channel returned Ok(None).
C14_PollNeverBlocks ==
    /\ guest = "running" => ENABLED hid_get_event
    /\ call.op = "hid_get_event" /\ KeyEventsIn(call.polled) = <<>> =>
         call.ret = ApiOkWith(FfiNone)

\* The guest polled an empty channel after it had taken a key event out of
\* it, and got None.
C14_Witness ==
    /\ call.op = "hid_get_event" /\ call.polled = <<>>
    /\ call.ret = ApiOkWith(FfiNone)
    /\ Len(history.delivered) = 1
    /\ guest = "running"

\* Both glyph caches hold a texture for every glyph in every colour.
CacheComplete ==
    /\ app.font8x16 = NUM_GLYPHS * NUM_FG
    /\ app.font8x8 = NUM_GLYPHS * NUM_FG

\* C15: the guest entry point is never invoked before the glyph cache for
\* both font heights is complete and Started has been sent: Started is
\* sent only with both caches complete, and the guest is entered only
\* after Started has been sent and received.
C15_StartupOrder ==
    /\ history.started_sent > 0 => CacheComplete
    /\ history.os_main_calls > 0 \/ guest \in {"running", "in_block_call"} =>
         /\ history.started_sent > 0
         /\ history.started_received > 0
         /\ CacheComplete

\* The guest has just been entered: both caches are complete and nothing
\* else has happened.
C15_Witness ==
    /\ history.os_main_calls = 1 /\ guest = "running"
    /\ CacheComplete
    /\ call = NoCall /\ history.frames = 0 /\ history.pushed = <<>>

\* C16: the startup handshake fires once: Started is sent at most once and
\* exactly once by the time on_start has returned, it is received at most
\* once and exactly once by the time the guest thread has left its startup
\* wait, the guest entry point is invoked at most once, and no
\* hid_get_event call receives Started.
C16_HandshakeOnce ==
    /\ history.started_sent <= 1
    /\ history.started_received <= history.started_sent
    /\ history.os_main_calls <= history.started_received
    /\ history.hid_started = 0
    /\ ui = "running" => history.started_sent = 1
    /\ guest \in {"starting", "running", "in_block_call"} =>
         history.started_received = 1
    /\ guest \in {"running", "in_block_call"} => history.os_main_calls = 1

\* The handshake is over and the guest has polled for events since.
C16_Witness ==
    /\ history.started_sent = 1 /\ history.started_received = 1
    /\ history.os_main_calls = 1
    /\ call.op = "hid_get_event"
    /\ Len(history.pushed) = MaxEvents

\* C17: the presentation thread never blocks on the guest: whatever the
\* guest thread is doing, the next step of on_start can be taken, and once
\* on_start is over every event can be handled and a frame can be drawn
\* (as long as the run's bounds on events and frames allow one more), and
\* a frame that has begun can read its next byte.
C17_PresentationNeverBlocks ==
    /\ ui \in {"render_font8x16", "render_font8x8"} => ENABLED on_start_render_font
    /\ ui = "send_started" => ENABLED on_start_send
    /\ ui = "running" =>
         /\ \A event \in Events :
              Len(history.pushed) < MaxEvents => ENABLED on_event(event)
         /\ history.frames < MaxFrames => ENABLED on_update
         /\ ENABLED on_stop
    /\ ui = "drawing" => ENABLED on_update_get_at

\* The presentation thread pushed a key event and drew a frame while the
\* guest thread was still blocked at its startup wait.
C17_Witness ==
    /\ guest = "startup_wait"
    /\ Len(history.pushed) >= 1
    /\ history.frames >= 1

\* C18: power_control, with any mode, and on_stop end the process:
\* power_control does not return, both threads are gone after the step,
\* and once they are gone nothing changes any more.
C18_Termination ==
    [][/\ call'.op = "power_control" => call'.ret = NeverReturns /\ Exited'
       /\ history'.handler = "on_stop" => Exited'
       /\ Exited => UNCHANGED vars]_vars

\* The guest asked for a reset while key events were waiting in the
\* channel, and the process is gone.
C18_Witness ==
    /\ call.op = "power_control" /\ call.mode = "Reset"
    /\ Exited
    /\ Len(channel) >= 1

(***************************************************************************)
(* Framebuffer claims (SpecFramebuffer)                                    *)
(***************************************************************************)
\* C19: write_at and get_at check bounds on every access: an offset of N
\* or more, N being the size of the framebuffer, panics and touches no
\* memory, so only offsets 0..N-1 are read or written and the byte after
\* the array keeps its value.
C19_BoundsChecked ==
    /\ call.op \in {"write_at", "get_at"} =>
         /\ call.offset >= FRAMEBUFFER_SIZE =>
              call.ret = Panicked /\ call.touched = "none"
         /\ call.touched # "none" => call.offset < FRAMEBUFFER_SIZE
    /\ past_end = 0

(***************************************************************************)
(* Claims about the missing peripherals (SpecStubs)                        *)
(***************************************************************************)
\* The get-info queries among them.
GetInfoOps ==
    {"serial_get_info", "i2c_bus_get_info", "audio_mixer_channel_get_info",
     "bus_get_info"}

\* The state of the emulator: everything but the record of the call.
C20_StateUnchanged ==
    UNCHANGED <<VIDEO_MODE, PALETTE, FRAMEBUFFER, past_end, channel, HARDWARE,
                guest, threads, build, palette_calls>>

\* C20, as stated: every operation of the serial, audio, I2C and bus
\* families, configuration get and set and hid_set_leds returns None (the
\* get-info queries) or Err(Unimplemented) (the others), for every
\* argument and in every state, and changes no emulator state.
C20_AllUnsupported ==
    [][call'.op \in StubOps =>
         /\ call'.ret = IF call'.op \in GetInfoOps THEN FfiNone ELSE Unimplemented
         /\ C20_StateUnchanged]_vars

\* C20, amended: the same for every such operation that has a result to
\* say it in; bus_select returns nothing and bus_interrupt_status returns
\* 0, and these two change no emulator state either.
C20_UnsupportedWhereExpressible ==
    [][call'.op \in StubOps =>
         /\ call'.ret = CASE call'.op \in GetInfoOps -> FfiNone
                          [] call'.op = "bus_select" -> Unit
                          [] call'.op = "bus_interrupt_status" -> U32(0)
                          [] OTHER -> Unimplemented
         /\ C20_StateUnchanged]_vars

\* hid_set_leds was refused while the video mode was one the guest had set.
C20_Witness ==
    /\ call.op = "hid_set_leds" /\ call.arg = 255
    /\ call.ret = Unimplemented
    /\ VIDEO_MODE = Mode_new(T640x400, Text8x8)

(***************************************************************************)
(* Panics and the HARDWARE lock (SpecBlock)                                *)
(***************************************************************************)
\* C21: no capability call panics for an operational failure: every call,
\* block_read, block_write and block_verify with a buffer shorter than
\* num_blocks * 512 bytes or with an arbitrary 64-bit block index among
\* them, returns a result or an optional value, and the guest thread goes
\* on running.
C21_NoPanic ==
    /\ guest # "panicked"
    /\ call.op \in BlockTransfers => call.ret # Panicked

\* C22: the HARDWARE lock is held only inside one call: whenever the guest
\* is between calls, whatever the last call returned, the lock is free and
\* each of the calls that lock it can be made.
C22_LockFreeBetweenCalls ==
    guest = "running" =>
        /\ locks.HARDWARE = "free"
        /\ ENABLED time_ticks_get
        /\ \A dev_id \in DeviceIds : ENABLED block_dev_get_info(dev_id)
        /\ ENABLED block_read(0, <<0, 0, 0, 0>>, 0, FALSE, <<>>)
        /\ ENABLED block_write(0, <<0, 0, 0, 0>>, 0, <<>>)
        /\ ENABLED block_verify(0, <<0, 0, 0, 0>>, 0, <<>>)

\* A block_read has left by its error return for a block outside the
\* image: the lock is free.
C22_Witness ==
    /\ guest = "running" /\ locks.HARDWARE = "free"
    /\ call.op = "block_read" /\ call.ret = ApiErr("BlockOutOfBounds", 0)

(***************************************************************************)
(* Time (SpecTime)                                                         *)
(***************************************************************************)
\* C24: time_ticks_get is monotonic and counts the milliseconds since the
\* boot timestamp: each call returns the whole milliseconds between
\* boot_time and now, never less than the call before it returned; and
\* time_ticks_per_second returns 1000 in every state.
C24_TicksMonotonic ==
    [][/\ (call'.op = "time_ticks_get" /\ <<call, history>>' # <<call, history>>)
            => /\ call'.ret.value * 1000 <= clock.instant - HARDWARE.boot_time
               /\ clock.instant - HARDWARE.boot_time < (call'.ret.value + 1) * 1000
               /\ call'.ret.value >= history.ticks
               /\ (call.op = "time_ticks_get" => call'.ret.value >= call.ret.value)
       /\ call'.op = "time_ticks_per_second" => call'.ret = Ticks(1000)
       /\ history'.ticks >= history.ticks]_vars

\* 2.4 milliseconds after boot time_ticks_get has returned 2, after an
\* earlier call that returned less.
C24_Witness ==
    /\ call = [op |-> "time_ticks_get", ret |-> Ticks(2)]
    /\ history.ticks = 2
    /\ clock.instant = HARDWARE.boot_time + 2400

\* x + y on u64 values, wrapping.
U64_add(x, y) ==
    LET s1 == x[1] + y[1]
        s2 == x[2] + y[2] + (s1 \div Limb)
        s3 == x[3] + y[3] + (s2 \div Limb)
        s4 == x[4] + y[4] + (s3 \div Limb)
    IN  <<s1 % Limb, s2 % Limb, s3 % Limb, s4 % Limb>>

\* What time_clock_get returns for the host times of the model, in seconds
\* since 2000-01-01 as two 16-bit limbs; the empty tuple stands for the
\* failed assertion.
ExpectedSecs ==
    (<<0, 0, 0, 0>> :> <<0, 0>>) @@ (<<17279, 14445, 0, 0>> :> <<0, 0>>)
    @@ (<<17280, 14445, 0, 0>> :> <<0, 0>>)
    @@ (<<64000, 27370, 0, 0>> :> <<46720, 12925>>)
    @@ (<<17279, 14445, 1, 0>> :> <<65535, 65535>>)
    @@ (<<17280, 14445, 1, 0>> :> <<>>) @@ (<<17281, 14445, 1, 0>> :> <<>>)

\* C26: time_clock_get returns the host's seconds since 1970 less
\* 946684800 as a 32-bit count when that difference is in 0..2^32-1, zero
\* when the host clock is before 2000-01-01, and fails its assertion,
\* never truncating, when the difference is above 2^32-1; time_clock_set
\* changes nothing a later time_clock_get depends on.
C26_ClockGet ==
    [][/\ (call'.op = "time_clock_get" /\ call' # call)
            => LET now == clock.system
                   before == U64_less(now.secs, EPOCH_2000)
               IN  IF ExpectedSecs[now.secs] = <<>>
                   THEN call'.ret = Panicked /\ guest' = "panicked"
                   ELSE /\ call'.ret.secs = ExpectedSecs[now.secs]
                        /\ call'.ret.nsecs = IF before THEN 0 ELSE now.nanos
                        /\ ~before =>
                              U64_add(<<call'.ret.secs[1], call'.ret.secs[2], 0, 0>>,
                                      EPOCH_2000) = now.secs
       /\ (call'.op = "time_clock_set" /\ call' # call)
            => /\ clock' = clock
               /\ time_clock_get_result(clock'.system) = time_clock_get_result(clock.system)
       /\ (call.op = "time_clock_set" /\ call'.op = "time_clock_get")
            => call'.ret = time_clock_get_result(clock.system)]_vars

\* time_clock_get has returned the largest count, one nanosecond before
\* the assertion would fail.
C26_Witness ==
    /\ call.op = "time_clock_get"
    /\ call.ret = Time(<<65535, 65535>>, 999999999)
    /\ guest = "running"

(***************************************************************************)
(* The framebuffer pointer (SpecVideo)                                     *)
(***************************************************************************)
\* C25: video_get_framebuffer returns the same non-null address of the
\* arena on every call, before and after mode changes and after
\* video_set_framebuffer; video_set_framebuffer returns Err(Unimplemented)
\* for every pointer and changes neither what video_get_framebuffer
\* returns, nor the mode, nor the framebuffer's bytes.
C25_FramebufferPointer ==
    [][/\ call'.op = "video_get_framebuffer"
            => /\ call'.ret = Pointer("FRAMEBUFFER.contents", 0)
               /\ call'.ret # NullPointer
       /\ (call.op = "video_get_framebuffer" /\ call'.op = "video_get_framebuffer")
            => call'.ret = call.ret
       /\ (call'.op = "video_set_framebuffer" /\ call' # call)
            => /\ call'.ret = ApiErr("Unimplemented", 0)
               /\ UNCHANGED <<VIDEO_MODE, FRAMEBUFFER, past_end>>]_vars

\* video_get_framebuffer has returned the arena in a mode that is not the
\* startup mode.
C25_Witness ==
    /\ call.op = "video_get_framebuffer"
    /\ call.ret = Framebuffer_get_pointer
    /\ VIDEO_MODE = Mode_new(T640x400, Text8x8)

(***************************************************************************)
(* Frames (SpecFrame)                                                      *)
(***************************************************************************)
\* The slots on_update computes for the 256 glyphs and 16 foregrounds.
Slots ==
    {on_update_slot(glyph, fg_idx) :
        glyph \in 0..(NUM_GLYPHS - 1), fg_idx \in 0..(NUM_FG - 1)}

\* C23: the slot glyph * 16 + fg is injective on glyph 0..255 and
\* foreground 0..15 and the slots are exactly 0..4095: the 4096 pairs give
\* 4096 different slots, they fill 0..4095, and the slot of every cell a
\* frame draws gives back the cell's glyph and foreground.
C23_SlotInjective ==
    /\ Cardinality(Slots) = NUM_GLYPHS * NUM_FG
    /\ Slots = 0..(NUM_GLYPHS * NUM_FG - 1)
    /\ \A i \in 1..Len(frame.drawn) :
         /\ frame.drawn[i].slot \in Slots
         /\ frame.drawn[i].slot \div 16 = frame.drawn[i].glyph
         /\ frame.drawn[i].slot % 16 = Attr_fg(frame.drawn[i].attr)

\* A frame has drawn glyph 255 in foreground 15, from the last slot.
C23_Witness ==
    /\ frame.pc = "done" /\ Len(frame.drawn) = 1
    /\ frame.drawn[1].glyph = 255 /\ Attr_fg(frame.drawn[1].attr) = 15
    /\ frame.drawn[1].slot = NUM_GLYPHS * NUM_FG - 1

\* The values stored at an offset so far: by main, and by the guest.
StoredAt(offset) ==
    {FRAMEBUFFER_after_main[offset]} \cup
    {history.written[i][2] : i \in {j \in 1..Len(history.written) :
                                      history.written[j][1] = offset}}

\* C27: when the guest rewrites a cell, one byte at a time, while a frame
\* is drawn, every byte the frame reads is a value that was stored at
\* that offset, every read is inside the framebuffer, and a frame during
\* which the guest wrote nothing (one that began after the writes) draws
\* each cell with the pair of bytes the buffer holds.
C27_RaceBenign ==
    /\ frame.pc # "panicked"
    /\ frame.pc = "attr" => frame.glyph \in StoredAt(byte_offset(WatchedCells[frame.at]))
    /\ \A i \in 1..Len(frame.drawn) :
         LET d == frame.drawn[i]
         IN  /\ byte_offset(d.cell) + 1 < FRAMEBUFFER_SIZE
             /\ d.glyph \in StoredAt(byte_offset(d.cell))
             /\ d.attr \in StoredAt(byte_offset(d.cell) + 1)
             /\ (frame.pc = "done" /\ frame.writes = Len(history.written))
                  => /\ d.glyph = FRAMEBUFFER[byte_offset(d.cell)]
                     /\ d.attr = FRAMEBUFFER[byte_offset(d.cell) + 1]

\* A frame has drawn a mixed pair: it read the glyph of cell 0 before the
\* guest wrote the cell's two bytes, and the attribute after.
C27_Witness ==
    /\ history.written = <<<<0, 65>>, <<1, 65>>>>
    /\ frame.pc = "done" /\ frame.writes = 0
    /\ frame.drawn[1].glyph = 32 /\ frame.drawn[1].attr = 65

\* The largest slot on_update computes.
LargestSlot == CHOOSE slot \in Slots : Slots \subseteq 0..slot

\* The modes video_set_mode accepts.
AcceptedModes == {mode \in 0..255 : video_set_mode_result(mode) = ApiOk}

\* C28: in every mode video_set_mode accepts, the byte offsets a frame
\* reads (two per cell, for text_width * text_height cells) are below the
\* framebuffer's size, and every slot (glyph * 16 + fg) is below the
\* length of both glyph caches: no frame panics on an index.
C28_FrameInBounds ==
    /\ VIDEO_MODE \in AcceptedModes
    /\ \A mode \in AcceptedModes :
         LET cells == Mode_text_width(mode) * Mode_text_height(mode)
         IN  /\ byte_offset(cells - 1) + 1 < FRAMEBUFFER_SIZE
             /\ ~Framebuffer_panics(byte_offset(cells - 1) + 1)
    /\ LargestSlot < app.font8x16 /\ LargestSlot < app.font8x8
    /\ frame.pc # "panicked"
    /\ frame.pc # "idle" =>
         /\ frame.mode \in AcceptedModes
         /\ byte_offset(frame.cols * frame.rows - 1) + 1 < FRAMEBUFFER_SIZE
         /\ \A i \in 1..Len(frame.drawn) :
              /\ frame.drawn[i].cell < frame.cols * frame.rows
              /\ frame.drawn[i].slot < app[FontOfMode(frame.mode)]

\* A frame of the largest grid, 80 x 60 cells, has drawn its last cell,
\* whose attribute the guest wrote, from the slot of a blank in
\* foreground 15.
C28_Witness ==
    /\ frame.pc = "done" /\ frame.cols * frame.rows = FILLED_SIZE \div 2
    /\ Len(frame.drawn) = 2
    /\ frame.drawn[2].cell = FILLED_SIZE \div 2 - 1
    /\ frame.drawn[2].attr = 255
    /\ frame.drawn[2].slot = 32 * NUM_FG + 15

(***************************************************************************)
(* The glyph caches (SpecThreads, SpecCache)                               *)
(***************************************************************************)
\* The texture of a glyph in a foreground entry of the startup palette.
StartupTexture(glyph, entry) ==
    Texture(glyph, RGBColour_from_packed(StartupPalette[entry + 1]))

\* render_font fills the slots in the order on_update looks them up.
RenderOrderIsLookupOrder ==
    \A glyph \in 0..(NUM_GLYPHS - 1), entry \in 0..(NUM_FG - 1) :
        /\ render_font_slot(glyph, entry) = on_update_slot(glyph, entry)
        /\ render_font_slot(glyph, entry) \div 16 = glyph
        /\ render_font_slot(glyph, entry) % 16 = entry
        /\ render_font_slot(glyph, entry) \in 0..4095

\* C29: the glyph cache is built in lookup order: once render_font has
\* filled a cache, its slot s holds the texture of glyph floor(s / 16)
\* drawn in foreground palette entry s mod 16, for both fonts.
C29_CacheInLookupOrder ==
    /\ RenderOrderIsLookupOrder
    /\ \A font \in {"font8x16", "font8x8"} :
         app[font] > 0 =>
            /\ app[font] = 4096
            /\ \A slot \in WatchedSlots :
                 textures[font][slot] = StartupTexture(slot \div 16, slot % 16)

\* on_start has filled both caches: slot 1041 of the 8x8 cache holds
\* glyph 65 in the red of palette entry 1.
C29_Witness ==
    /\ ui = "running"
    /\ app.font8x16 = 4096 /\ app.font8x8 = 4096
    /\ textures.font8x8[1041] = Texture(65, [red |-> 128, green |-> 0, blue |-> 0])

\* C30: once the guest runs nothing changes a glyph cache: whatever
\* video_set_palette and video_set_whole_palette store in entries 0..15,
\* the textures keep the foreground colours of the startup palette, while
\* the background of every cell a frame draws is the colour the palette
\* holds when the cell is drawn.
C30_CacheFrozen ==
    [][/\ textures' = textures
       /\ \A font \in {"font8x16", "font8x8"}, slot \in WatchedSlots :
            textures'[font][slot] = StartupTexture(slot \div 16, slot % 16)
       /\ Len(frame'.drawn) > Len(frame.drawn) =>
            LET d == frame'.drawn[Len(frame'.drawn)]
            IN  /\ d.bg = RGBColour_from_packed(PALETTE[Attr_bg(d.attr)])
                /\ d.texture = StartupTexture(d.glyph, Attr_fg(d.attr))]_vars

\* After the guest has replaced the palette, a frame has drawn cell 0:
\* its background in the new colour of entry 0, its glyph in the white of
\* the startup palette, which entry 15 no longer holds.
C30_Witness ==
    /\ frame.pc = "done"
    /\ PALETTE[0] # StartupPalette[1] /\ PALETTE[15] # StartupPalette[16]
    /\ frame.drawn[1].attr = white_on_black
    /\ frame.drawn[1].bg = RGBColour_from_packed(PALETTE[0])
    /\ frame.drawn[1].texture.fg = [red |-> 255, green |-> 255, blue |-> 255]

(***************************************************************************)
(* Mode changes (SpecModeChange)                                           *)
(***************************************************************************)
\* C31: video_set_mode, whether it accepts the mode or rejects it, leaves
\* every byte of the framebuffer and every palette entry as it was.
C31_ModeChangeKeepsContents ==
    [][(\/ VIDEO_MODE' # VIDEO_MODE
        \/ call'.op = "video_set_mode" /\ call' # call)
          => UNCHANGED <<FRAMEBUFFER, past_end, PALETTE>>]_vars

\* The guest wrote a glyph and changed colour 15, then video_set_mode
\* accepted 80 x 60 cells: the glyph and the colour are still there.
C31_Witness ==
    /\ call.op = "video_set_mode" /\ call.ret = ApiOk
    /\ VIDEO_MODE = Mode_new(T640x480, Text8x8)
    /\ FRAMEBUFFER[0] = 65
    /\ PALETTE[15] = RGBColour_as_packed([red |-> 1, green |-> 2, blue |-> 3])

(***************************************************************************)
(* Palette entries (SpecPaletteReads)                                      *)
(***************************************************************************)
\* C32: palette entries are independent: video_set_palette(i, C) changes
\* entry i only, so for every j other than i video_get_palette(j) returns
\* after the call what it returned before, whatever the presentation
\* thread reads in between; and the frame's reads change no entry.
C32_SlotsIndependent ==
    [][/\ PALETTE' # PALETTE
            => /\ call'.op = "video_set_palette"
               /\ \A j \in 0..(PALETTE_LEN - 1) :
                    j # call'.index =>
                       /\ PALETTE'[j] = PALETTE[j]
                       /\ video_get_palette_result(PALETTE', j)
                            = video_get_palette_result(PALETTE, j)
       /\ (frame' # frame \/ call'.op = "video_get_palette") => PALETTE' = PALETTE]_vars

\* While a frame is being drawn the guest has set entry 0; entries 1 and
\* 255 hold their startup colours.
C32_Witness ==
    /\ ui = "drawing"
    /\ call.op = "video_set_palette" /\ call.index = 0
    /\ PALETTE[0] = RGBColour_as_packed(call.rgb) /\ PALETTE[0] # StartupPalette[1]
    /\ PALETTE[1] = StartupPalette[2] /\ PALETTE[255] = StartupPalette[256]
\* C33: the capacity of device 0 never changes while the program runs: no
\* block_read, block_write, block_verify or block_dev_eject, whatever its
\* arguments (a write at or past the last block among them), changes the
\* length of the backing file or the num_blocks that block_dev_get_info(0)
\* reports, so both stay what they were at startup.
C33_CapacityFixed ==
    [][/\ HARDWARE'.disk_file.some = HARDWARE.disk_file.some
       /\ HARDWARE.disk_file.some
            => File_metadata_len(HARDWARE'.disk_file.file)
                 = File_metadata_len(HARDWARE.disk_file.file)
       /\ block_dev_get_info_result(HARDWARE', 0)
            = block_dev_get_info_result(HARDWARE, 0)]_vars

\* A block_write of one block right at the end of a two-block file has
\* returned, and the file is still two blocks long.
C33_Witness ==
    /\ call.op = "block_write" /\ call.dev_id = 0
    /\ call.num_blocks = 1 /\ Len(call.buffer) = BLOCK_SIZE
    /\ HARDWARE.disk_file.some
    /\ File_metadata_len(HARDWARE.disk_file.file) = 2 * BLOCK_SIZE
    /\ call.block_idx = U64(2)
    /\ call.ret \in {ApiOk, ApiErr("DeviceError", 0)}

C35_HandshakeCompletes ==
    /\ [](guest = "starting" => locks.EV_QUEUE = "free")
    /\ (ui = "send_started")
         ~> (history.os_main_calls = 1 \/ guest = "panicked" \/ Exited)

\* on_start has sent Started and returned while the guest thread holds the
\* lock of EV_QUEUE at its startup wait: the send needed no lock.
C35_Witness ==
    /\ CacheComplete
    /\ guest = "startup_wait" /\ locks.EV_QUEUE = "guest"
    /\ history.started_sent = 1 /\ history.started_received = 0
    /\ channel = <<Started>>
    /\ ui = "running" /\ history.handler = "on_start"

\* The cells of the grid of a mode.
CellsOfMode(mode) == Mode_text_width(mode) * Mode_text_height(mode)

\* C36: a frame uses one value of the video mode: on_update loads the
\* stored mode once when the frame begins and takes the window size, the
\* glyph cache and the numbers of columns and rows from that value; a
\* video_set_mode of the guest while the frame is drawn changes none of
\* them, and the next frame begins with the mode stored by then.
C36_OneModePerFrame ==
    [][/\ history'.frames # history.frames
            => /\ app'.mode = VIDEO_MODE
               /\ frame'.mode = VIDEO_MODE
               /\ frame'.window = IF VIDEO_MODE # app.mode
                                  THEN window_dimensions(VIDEO_MODE)
                                  ELSE frame.window
               /\ ui' = "drawing"
                    => /\ frame'.cols = Mode_text_width(VIDEO_MODE)
                       /\ frame'.rows = Mode_text_height(VIDEO_MODE)
       /\ history'.frames = history.frames
            => /\ app'.mode = app.mode
               /\ frame'.mode = frame.mode
               /\ frame'.window = frame.window
               /\ frame'.cols = frame.cols
               /\ frame'.rows = frame.rows
       /\ Len(frame'.drawn) > Len(frame.drawn)
            => LET cell == frame'.drawn[Len(frame'.drawn)]
               IN  /\ cell.cell < CellsOfMode(app.mode)
                   /\ cell.texture = textures[FontOfMode(app.mode)][cell.slot]
                   /\ (frame'.pc = "done") =
                        (\A i \in 1..Len(WatchedCells) :
                            WatchedCells[i] < CellsOfMode(app.mode)
                              => \E j \in 1..Len(frame'.drawn) :
                                    frame'.drawn[j].cell = WatchedCells[i])]_vars

\* The second frame began in the mode of 80 x 30 cells and is half way
\* through its first cell when the guest has stored the mode of 80 x 60
\* cells: the frame keeps its mode, its window and its grid.
C36_Witness ==
    /\ history.frames = 2 /\ ui = "drawing" /\ frame.pc = "attr"
    /\ call.op = "video_set_mode" /\ call.ret = ApiOk
    /\ VIDEO_MODE = Mode_new(T640x480, Text8x8)
    /\ app.mode = Mode_new(T640x480, Text8x16) /\ frame.mode = app.mode
    /\ frame.cols = 80 /\ frame.rows = 30
    /\ frame.window = <<640, 480>>

\* C37: compare_and_swap_bool(item, old, new) is atomic: it returns true
\* and leaves item = new exactly when item held old, and otherwise returns
\* false and leaves item as it was; no other item changes.  Of the callers
\* that try false -> true on one item while nobody resets it, exactly one
\* gets true.
C37_CompareAndSwap ==
    /\ [][(atomics' # atomics \/ (call' # call /\ call'.op = "compare_and_swap_bool"))
            => /\ call'.op = "compare_and_swap_bool"
               /\ call'.ret = (atomics.value[call'.item] = call'.old_value)
               /\ atomics'.value[call'.item] =
                    IF call'.ret THEN call'.new_value ELSE atomics.value[call'.item]
               /\ \A item \in Items \ {call'.item} :
                    atomics'.value[item] = atomics.value[item]]_vars
    /\ [](\A item \in Items :
            /\ atomics.won[item] \subseteq atomics.tried[item]
            /\ atomics.tried[item] # {} => Cardinality(atomics.won[item]) = 1)

\* Both callers have tried false -> true on item a: the second got true
\* and the first, whose call came last, got false.
C37_Witness ==
    /\ atomics.tried["a"] = Callers /\ atomics.won["a"] = {2}
    /\ atomics.value["a"] /\ ~atomics.value["b"]
    /\ call.op = "compare_and_swap_bool" /\ call.caller = 1 /\ call.item = "a"
    /\ ~call.old_value /\ call.new_value /\ ~call.ret

\* C38: the byte offset block_idx * 512 is never aliased by wrapping round
\* 64 bits: a block_read, block_write or block_verify on device 0 of one
\* block or more, with a block index whose byte offset does not fit in 64
\* bits, fails and brings nothing from the file into the caller's buffer:
\* it does not reach the block at the offset modulo 2^64.
C38_NoWrapAround ==
    [][(/\ call' # call
        /\ call'.op \in BlockTransfers
        /\ call'.dev_id = 0
        /\ call'.num_blocks >= 1
        /\ ~call'.null
        /\ HARDWARE.disk_file.some
        /\ ByteOffset(call'.block_idx).overflow)
          => /\ call'.ret # ApiOk
             /\ call'.out = call'.buffer]_vars

====
